---- MODULE Spec2Model ----
(***************************************************************************)
(* TalentFlow: the jobs board, the candidate pipeline and the assessment   *)
(* builder over the IndexedDB store and the mock API (talentflow-app.tsx). *)
(*                                                                         *)
(* Every user intent starts one asynchronous flow (the async handler).     *)
(* A flow is suspended only at its awaits: the mock API's delay and each   *)
(* IndexedDB request.  One action of the model is the synchronous piece of *)
(* a handler between two awaits.  An IndexedDB request takes effect when   *)
(* its transaction is created (transactions on one object store run in     *)
(* creation order), which is the synchronous piece that issues it.          *)
(***************************************************************************)
EXTENDS Integers, Sequences, FiniteSets, TLC

\* ------------------------------------------------------------------ bounds
\* Number of seeded jobs (the source seeds 25; scaled down).
NSeed == 3
\* Number of user intents (drops, clicks, submits) in one behaviour of a user
\* who waits for each handler to end.
MaxOps == 3
\* Number of user intents in one behaviour of a user who does not wait.
MaxRaceOps == 2
\* Number of handlers in flight at once.
MaxInFlight == 2
\* Number of store puts that end in an I/O error in one behaviour.
MaxIOFaults == 1
\* Number of jobs of the collections that reorderJob is applied to on its own.
NReorder == 4
\* Number of seeded candidates (the source seeds 1000; scaled down).
NCand == 2
\* Number of sections of an assessment, and of questions of a section, that
\* the builder's add buttons go up to.
MaxSections == 2
MaxQuestions == 2
\* Page size of the jobs board (the source passes pageSize: 10; scaled down
\* so that a second page exists with NSeed jobs).
PageSize == 2

\* ------------------------------------------------------------------ text
\* Strings are sequences of one-character strings.
Whitespace == {" "}

\* String.prototype.toLowerCase, per character.
LowerChar(c) ==
  CASE c = "A" -> "a"
    [] c = "B" -> "b"
    [] c = "C" -> "c"
    [] c = "D" -> "d"
    [] OTHER -> c

ToLowerCase(s) == [i \in 1..Len(s) |-> LowerChar(s[i])]

RECURSIVE SkipWs(_)
SkipWs(s) ==
  IF s # << >> /\ Head(s) \in Whitespace THEN SkipWs(Tail(s)) ELSE s

\* s.replace(/\s+/g, '-'): every maximal run of whitespace becomes one '-'.
RECURSIVE ReplaceWsRuns(_)
ReplaceWsRuns(s) ==
  IF s = << >> THEN << >>
  ELSE IF Head(s) \in Whitespace THEN <<"-">> \o ReplaceWsRuns(SkipWs(Tail(s)))
  ELSE <<Head(s)>> \o ReplaceWsRuns(Tail(s))

\* title.toLowerCase().replace(/\s+/g, '-')
Slugify(title) == ReplaceWsRuns(ToLowerCase(title))

\* !title.trim(): the title is empty or whitespace only.
IsBlank(s) == \A i \in 1..Len(s) : s[i] \in Whitespace

\* ------------------------------------------------------------------ store: jobs
SeedIds == 1..NSeed

\* seedData: job i has order i-1 (0-based), the slug of its title, the first
\* jobs are active and the last ones archived (i < 18 of 25 in the source;
\* here all but the last seeded job).
SeedTitle(i) ==
  CASE i = 1 -> <<"A">>
    [] i = 2 -> <<"B">>
    [] i = 3 -> <<"C">>
    [] OTHER -> <<"C", " ", "a">> \o [k \in 1..(i - 3) |-> "c"]

SeedTags == <<"Remote", "Full-time", "Part-time", "Contract", "Senior", "Junior", "Mid-level">>

SeedJob(i) ==
  [id |-> i,
   title |-> SeedTitle(i),
   slug |-> Slugify(SeedTitle(i)),
   status |-> IF i < NSeed THEN "active" ELSE "archived",
   tags |-> <<SeedTags[((i - 1) % Len(SeedTags)) + 1], SeedTags[(i % Len(SeedTags)) + 1]>>,
   order |-> i - 1]

SeedJobs == [i \in SeedIds |-> SeedJob(i)]

\* IndexedDB returns records in key order.  Keys are strings: the ids made by
\* Date.now().toString() are digit strings and sort before the seeded
\* "job-<n>" keys; among themselves they sort by time.
KeyBefore(a, b) ==
  IF (a \in SeedIds) = (b \in SeedIds) THEN a < b ELSE b \in SeedIds

\* The keys of S in key order: the key at position i has i - 1 keys before it.
SeqOfKeys(S) ==
  [i \in 1..Cardinality(S) |->
     CHOOSE k \in S : Cardinality({y \in S : KeyBefore(y, k)}) = i - 1]

\* db.getAll('jobs')
GetAll(db) == LET ks == SeqOfKeys(DOMAIN db) IN [i \in 1..Len(ks) |-> db[ks[i]]]

\* db.put('jobs', value): insert or replace the record with value's key.
Put(db, rec) == [k \in DOMAIN db \cup {rec.id} |-> IF k = rec.id THEN rec ELSE db[k]]

\* ------------------------------------------------------------------ getJobs
\* haystack.includes(needle) on strings.
Includes(hay, needle) ==
  \E i \in 0..(Len(hay) - Len(needle)) :
    \A j \in 1..Len(needle) : hay[i + j] = needle[j]

\* Array.prototype.includes on an array of tags.
HasTag(tags, tag) == \E i \in 1..Len(tags) : tags[i] = tag

\* SortByOrder that leaves the array in key order.
SortByOrderNone(s) == s

\* Array.prototype.sort((a, b) => a.order - b.order): a stable sort.  The
\* element at index i goes after the elements with a smaller order and after
\* the earlier elements with the same order.
SortRank(s, i) ==
  Cardinality({j \in 1..Len(s) :
                 \/ s[j].order < s[i].order
                 \/ s[j].order = s[i].order /\ j < i}) + 1

SortByOrder(s) ==
  [r \in 1..Len(s) |-> s[CHOOSE i \in 1..Len(s) : SortRank(s, i) = r]]

\* Array.prototype.slice(start, end) for 0 <= start.
Slice(s, start, end) ==
  LET lo == IF start < Len(s) THEN start ELSE Len(s)
      hi == IF end < Len(s) THEN end ELSE Len(s)
  IN IF hi <= lo THEN << >> ELSE SubSeq(s, lo + 1, hi)

\* Math.ceil(n / d) for n >= 0, d > 0.
CeilDiv(n, d) == (n + d - 1) \div d

\* The filters of getJobs: an empty string is falsy and filters nothing.
MatchesJob(j, params) ==
  /\ params.search = << >> \/ Includes(ToLowerCase(j.title), ToLowerCase(params.search))
  /\ params.status = "" \/ j.status = params.status
  /\ params.tag = "" \/ HasTag(j.tags, params.tag)

\* mockAPI.getJobs after its delay: filter, sort, paginate.  `matching` and
\* `sorted` are bound to the arrays, each computed once.
GetJobs(db, params) ==
  LET pg == IF params.page = 0 THEN 1 ELSE params.page   \* parseInt(page) || 1
      start == (pg - 1) * params.pageSize
      Result(sorted) ==
        [data |-> Slice(sorted, start, start + params.pageSize),
         total |-> Len(sorted),
         page |-> pg,
         pageSize |-> params.pageSize,
         totalPages |-> CeilDiv(Len(sorted), params.pageSize)]
  IN CHOOSE result \in
       {Result(sorted) :
          sorted \in {SortByOrder(matching) :
                        matching \in {SelectSeq(GetAll(db),
                                                LAMBDA j : MatchesJob(j, params))}}} :
       TRUE

\* ------------------------------------------------------------------ reorderJob
\* ShiftOrder with the upper end of the downward range left out.
ShiftOrderOpenRange(j, fromOrder, toOrder) ==
  IF fromOrder < toOrder
  THEN IF j.order > fromOrder /\ j.order < toOrder
       THEN [j EXCEPT !.order = j.order - 1] ELSE j
  ELSE IF j.order >= toOrder /\ j.order < fromOrder
       THEN [j EXCEPT !.order = j.order + 1] ELSE j

\* The two forEach loops of reorderJob, on one record.
ShiftOrder(j, fromOrder, toOrder) ==
  IF fromOrder < toOrder
  THEN IF j.order > fromOrder /\ j.order <= toOrder
       THEN [j EXCEPT !.order = j.order - 1] ELSE j
  ELSE IF j.order >= toOrder /\ j.order < fromOrder
       THEN [j EXCEPT !.order = j.order + 1] ELSE j

\* reorderJob from `const jobs = await db.getAll('jobs')` to `job.order =
\* toOrder`: the array that the write loop then puts record by record.
ReorderLocal(all, id, fromOrder, toOrder) ==
  [i \in 1..Len(all) |->
     IF all[i].id = id
     THEN [all[i] EXCEPT !.order = toOrder]
     ELSE ShiftOrder(all[i], fromOrder, toOrder)]

\* items.splice(from, 1); items.splice(to, 0, item) with 0-based indexes.
RemoveAt(s, i) == SubSeq(s, 1, i - 1) \o SubSeq(s, i + 1, Len(s))
InsertAt(s, i, x) == SubSeq(s, 1, i - 1) \o <<x>> \o SubSeq(s, i, Len(s))
MoveItem(items, from, to) == InsertAt(RemoveAt(items, from + 1), to + 1, items[from + 1])

\* ------------------------------------------------------------------ state
VARIABLES
  jobsDb,        \* object store 'jobs': id -> record
  jobs,          \* JobsBoard state `jobs`: the displayed sequence of records
  search,        \* JobsBoard state `search`
  statusFilter,  \* JobsBoard state `statusFilter`
  tagFilter,     \* JobsBoard state `tagFilter`
  page,          \* JobsBoard state `page`
  totalPages,    \* JobsBoard state `totalPages`
  loading,       \* JobsBoard state `loading` (the board is hidden while TRUE)
  flows,         \* the asynchronous handlers in flight, in the order issued
  formError,     \* JobModal state `error`
  now,           \* Date.now(), which names the next created job
  ops,           \* user intents left
  ioFaults,      \* store puts that ended in an I/O error so far
  limit,         \* handlers the user lets be in flight at once (fixed by Init)
  view,          \* the component TalentFlow renders: "jobs" (JobsBoard),
                 \* "detail" (JobDetail with its KanbanBoard), "assessment"
                 \* or "profile" (CandidateProfile)
  candidatesDb,  \* object store 'candidates': id -> record
  timelinesDb,   \* object store 'timelines' (autoIncrement key): events as appended
  candidates,    \* KanbanBoard state `candidates`
  kanbanLoading, \* KanbanBoard state `loading`
  moves,         \* KanbanBoard's asynchronous handlers in flight
  assessmentsDb, \* object store 'assessments': jobId -> record
  assessment,    \* AssessmentBuilder state `assessment`
  builderJob,    \* AssessmentBuilder prop `jobId` (0: not mounted)
  builderLoading, \* AssessmentBuilder state `loading`
  saving,        \* AssessmentBuilder state `saving`
  saves,         \* AssessmentBuilder's asynchronous handlers in flight
  profileId,     \* CandidateProfile prop `candidateId` (0: not mounted)
  profileCandidate, \* CandidateProfile state `candidate`
  timeline,      \* CandidateProfile state `timeline`
  profileJob,    \* CandidateProfile state `job`
  profileLoading, \* CandidateProfile state `loading`
  profiles       \* CandidateProfile's asynchronous handlers in flight

boardVars == <<jobsDb, jobs, search, statusFilter, tagFilter, page, totalPages,
               loading, flows, formError>>

kanbanVars == <<candidatesDb, timelinesDb, candidates, kanbanLoading, moves>>

builderVars == <<assessmentsDb, assessment, builderJob, builderLoading, saving, saves>>

profileVars == <<profileId, profileCandidate, timeline, profileJob, profileLoading,
                 profiles>>

\* What the jobs board's handlers leave alone.
offBoard == <<kanbanVars, builderVars, profileVars>>

\* The search/filter/page that a render's loadJobs closure captures.
CurParams ==
  [search |-> search, status |-> statusFilter, tag |-> tagFilter,
   page |-> page, pageSize |-> PageSize]

NoResult == [data |-> << >>, total |-> 0, page |-> 0, pageSize |-> 0, totalPages |-> 0]

\* One handler in flight.  kind/pc: which handler and where it is suspended;
\* params: the filters its loadJobs closure captured; id, from, to, local, k:
\* reorderJob's arguments, its `jobs` array and the index of the next put;
\* rec, status: updateJob's read record and the status it sets; data: the
\* form's jobData; res: getJobs' result; calls: the mutating remote calls the
\* handler has made (a drop or an archive click makes its call at once).  why, preDb, preJobs, foreign record, for the properties, how the
\* remote call ended, the store and the display when the handler started, and
\* whether another handler wrote the store since.
NewFlow(kind, params) ==
  [kind |-> kind, pc |-> "delay", params |-> params,
   id |-> 0, from |-> 0, to |-> 0, local |-> << >>, k |-> 0,
   rec |-> << >>, status |-> "", data |-> << >>, res |-> NoResult,
   calls |-> IF kind = "load" THEN 0 ELSE 1,
   why |-> "",
   preDb |-> IF kind = "reorder" THEN jobsDb ELSE << >>,
   preJobs |-> IF kind = "reorder" THEN jobs ELSE << >>,
   foreign |-> FALSE]

\* The other handlers see a write of handler i.
WrittenBy(i, fs) ==
  [n \in 1..Len(fs) |->
     IF n # i /\ fs[n].kind = "reorder" THEN [fs[n] EXCEPT !.foreign = TRUE] ELSE fs[n]]

\* ------------------------------------------------------------------ store: assessments
\* A question and a section of an assessment; ids are numbers here (the
\* source's `q-<n>` and `section-<n>` strings).
\* A question without a conditional rule (conditional: undefined).
NoRule == [questionId |-> 0 - 1, value |-> ""]

\* The rule the editor's select sets: { questionId, value: 'Option A' }.
Rule(questionId) == [questionId |-> questionId, value |-> "Option A"]

Question(id, type, text, required) ==
  [id |-> id, type |-> type, question |-> text, required |-> required,
   conditional |-> NoRule]

Section(id, title, questions) == [id |-> id, title |-> title, questions |-> questions]

\* seedData: the first jobs have a sample assessment (3 jobs, 3 sections of 5
\* questions, the third question of a section shown on the answer to its
\* first, in the source; here job 1, one section of two questions, the
\* second shown on the answer to the first).
SeedAssessments ==
  [j \in {1} |->
     [jobId |-> j,
      sections |-> <<Section(0, <<"Section ", 1>>,
                             <<Question(0, "single", <<"Question ", 1>>, TRUE),
                               [Question(1, "short", <<"Question ", 2>>, FALSE)
                                  EXCEPT !.conditional = Rule(0)]>>)>>]]

\* The value of db.get for a missing key.
Undefined == [jobId |-> 0, sections |-> <<"undefined">>]

\* The assessment builder is not mounted and the assessments are as seeded.
BuilderIdle ==
  /\ assessmentsDb = SeedAssessments
  /\ assessment = [jobId |-> 0, sections |-> << >>]
  /\ builderJob = 0
  /\ builderLoading = FALSE
  /\ saving = FALSE
  /\ saves = << >>

\* ------------------------------------------------------------------ store: candidates
Stages == {"applied", "screen", "tech", "offer", "hired", "rejected"}

\* SeedCandidate with the job number taken from 0, not 1.
SeedCandidateFromZero(c, jobId, stage) == [id |-> c, jobId |-> jobId - 1, stage |-> stage]

\* seedData: each candidate has a random job and a random stage, and one
\* timeline event 'Application submitted' with stage 'applied'.
SeedCandidate(c, jobId, stage) == [id |-> c, jobId |-> jobId, stage |-> stage]

SeedEvent(c) ==
  [candidateId |-> c, stage |-> "applied", note |-> <<"Application submitted">>,
   type |-> ""]

\* The kanban board is not mounted and the candidates are as seeded.
KanbanIdle ==
  /\ candidatesDb = [c \in 1..NCand |-> SeedCandidate(c, 1, "applied")]
  /\ timelinesDb = [c \in 1..NCand |-> SeedEvent(c)]
  /\ candidates = << >>
  /\ kanbanLoading = FALSE
  /\ moves = << >>

\* useState(null)
Null == << >>

\* The candidate profile is not mounted.
ProfileIdle ==
  /\ profileId = 0
  /\ profileCandidate = Null
  /\ timeline = << >>
  /\ profileJob = Null
  /\ profileLoading = FALSE
  /\ profiles = << >>

Init ==
  /\ jobsDb = SeedJobs
  /\ jobs = << >>
  /\ search = << >>
  /\ statusFilter = ""
  /\ tagFilter = ""
  /\ page = 1
  /\ totalPages = 1
  /\ loading = TRUE
  /\ flows = <<[NewFlow("load", [search |-> << >>, status |-> "", tag |-> "",
                                 page |-> 1, pageSize |-> PageSize])
                 EXCEPT !.pc = "loadDelay"]>>
  /\ formError = ""
  /\ now = NSeed + 1
  /\ ops = MaxRaceOps
  /\ ioFaults = 0
  /\ limit = MaxInFlight
  /\ view = "jobs"
  /\ KanbanIdle
  /\ BuilderIdle
  /\ ProfileIdle

FlowIndexes == 1..MaxInFlight

\* ------------------------------------------------------------------ loadJobs
\* loadJobs(): setLoading(true) and the call of getJobs, as the start of a
\* flow or as the continuation of flow i.
StartLoad(i, fs) == [fs EXCEPT ![i].pc = "loadDelay"]

\* LoadRead with a getJobs that can throw after its delay: loadJobs' catch
\* logs, finally setLoading(false), and the handler ends.
LoadReadMayFail(i) ==
  /\ i \in DOMAIN flows
  /\ flows[i].pc = "loadDelay"
  /\ \/ /\ flows' = [flows EXCEPT ![i].pc = "loadApply",
                                  ![i].res = GetJobs(jobsDb, flows[i].params)]
        /\ UNCHANGED loading
     \/ /\ flows' = RemoveAt(flows, i)
        /\ loading' = FALSE
  /\ UNCHANGED <<jobsDb, jobs, search, statusFilter, tagFilter, page,
                 totalPages, ops, ioFaults, formError, now, limit, view, offBoard>>

\* getJobs: the delay ends and getAll reads the store.
LoadRead(i) ==
  /\ i \in DOMAIN flows
  /\ flows[i].pc = "loadDelay"
  /\ flows' = [flows EXCEPT ![i].pc = "loadApply",
                            ![i].res = GetJobs(jobsDb, flows[i].params)]
  /\ UNCHANGED <<jobsDb, jobs, search, statusFilter, tagFilter, page,
                 totalPages, loading, ops, ioFaults, formError, now, limit, view, offBoard>>

\* setJobs(result.data); setTotalPages(result.totalPages); then the await of
\* db.getAll for the tag list.
LoadApply(i) ==
  /\ i \in DOMAIN flows
  /\ flows[i].pc = "loadApply"
  /\ jobs' = flows[i].res.data
  /\ totalPages' = flows[i].res.totalPages
  /\ flows' = [flows EXCEPT ![i].pc = "loadTags"]
  /\ UNCHANGED <<jobsDb, search, statusFilter, tagFilter, page, loading, ops,
                 ioFaults, formError, now, limit, view, offBoard>>

\* setAllTags(tags); finally setLoading(false): the handler ends.
LoadFinish(i) ==
  /\ i \in DOMAIN flows
  /\ flows[i].pc = "loadTags"
  /\ loading' = FALSE
  /\ flows' = RemoveAt(flows, i)
  /\ UNCHANGED <<jobsDb, jobs, search, statusFilter, tagFilter, page,
                 totalPages, ops, ioFaults, formError, now, limit, view, offBoard>>

\* onChange of the status select: setStatusFilter(v); setPage(1); the effect
\* on loadJobs then runs the new loadJobs.
SetStatusFilter(v) ==
  /\ view = "jobs"
  /\ ops > 0
  /\ Len(flows) < limit
  /\ v # statusFilter
  /\ statusFilter' = v
  /\ page' = 1
  /\ loading' = TRUE
  /\ flows' = Append(flows, [NewFlow("load", [CurParams EXCEPT !.status = v, !.page = 1])
                               EXCEPT !.pc = "loadDelay"])
  /\ ops' = ops - 1
  /\ UNCHANGED <<jobsDb, jobs, search, tagFilter, totalPages, ioFaults,
                 formError, now, limit, view, offBoard>>

\* The Previous/Next buttons: setPage; a changed page runs the effect.
GoToPage(p) ==
  /\ view = "jobs"
  /\ ops > 0
  /\ Len(flows) < limit
  /\ ~loading
  /\ p # page
  /\ page' = p
  /\ loading' = TRUE
  /\ flows' = Append(flows, [NewFlow("load", [CurParams EXCEPT !.page = p])
                               EXCEPT !.pc = "loadDelay"])
  /\ ops' = ops - 1
  /\ UNCHANGED <<jobsDb, jobs, search, statusFilter, tagFilter, totalPages,
                 ioFaults, formError, now, limit, view, offBoard>>

Max(a, b) == IF a > b THEN a ELSE b
Min(a, b) == IF a < b THEN a ELSE b

\* Previous: disabled={page === 1}; setPage(p => Math.max(1, p - 1)).
PrevPage == page # 1 /\ GoToPage(Max(1, page - 1))

\* Next: disabled={page === totalPages}; setPage(p => Math.min(totalPages, p + 1)).
NextPage == page # totalPages /\ GoToPage(Min(totalPages, page + 1))

\* ------------------------------------------------------------------ handleDragEnd (jobs)
\* Drop with the display left as it is until the remote call has resolved.
DropWithoutOptimisticUpdate(from, to) ==
  /\ view = "jobs"
  /\ ops > 0
  /\ Len(flows) < limit
  /\ ~loading
  /\ from \in 0..(Len(jobs) - 1)
  /\ to \in 0..(Len(jobs) - 1)
  /\ flows' = Append(flows, [NewFlow("reorder", CurParams)
                               EXCEPT !.id = jobs[from + 1].id, !.from = from, !.to = to])
  /\ ops' = ops - 1
  /\ UNCHANGED <<jobsDb, jobs, search, statusFilter, tagFilter, page, totalPages,
                 loading, ioFaults, formError, now, limit, view, offBoard>>

\* A drop with a destination: the optimistic splice and the call of reorderJob
\* with the dragged record's id and the two displayed indexes.
Drop(from, to) ==
  /\ view = "jobs"
  /\ ops > 0
  /\ Len(flows) < limit
  /\ ~loading
  /\ from \in 0..(Len(jobs) - 1)
  /\ to \in 0..(Len(jobs) - 1)
  /\ jobs' = MoveItem(jobs, from, to)
  /\ flows' = Append(flows, [NewFlow("reorder", CurParams)
                               EXCEPT !.id = jobs[from + 1].id, !.from = from, !.to = to])
  /\ ops' = ops - 1
  /\ UNCHANGED <<jobsDb, search, statusFilter, tagFilter, page, totalPages,
                 loading, ioFaults, formError, now, limit, view, offBoard>>

\* ReorderInjected with the failure raised after the first put of the loop.
ReorderInjectedAfterPut(i) ==
  /\ i \in DOMAIN flows
  /\ flows[i].kind = "reorder" /\ flows[i].pc = "delay"
  /\ LET local == ReorderLocal(GetAll(jobsDb), flows[i].id, flows[i].from, flows[i].to)
     IN jobsDb' = Put(jobsDb, local[1])
  /\ loading' = TRUE
  /\ flows' = [flows EXCEPT ![i].why = "injected", ![i].pc = "loadDelay"]
  /\ UNCHANGED <<jobs, search, statusFilter, tagFilter, page, totalPages, ops,
                 ioFaults, formError, now, limit, view, offBoard>>

\* reorderJob: the delay ends and shouldError() is true; handleDragEnd's catch
\* calls loadJobs().
ReorderInjected(i) ==
  /\ i \in DOMAIN flows
  /\ flows[i].kind = "reorder" /\ flows[i].pc = "delay"
  /\ loading' = TRUE
  /\ flows' = StartLoad(i, [flows EXCEPT ![i].why = "injected"])
  /\ UNCHANGED <<jobsDb, jobs, search, statusFilter, tagFilter, page,
                 totalPages, ops, ioFaults, formError, now, limit, view, offBoard>>

\* reorderJob: the delay ends, shouldError() is false, getAll reads the store.
ReorderRead(i) ==
  /\ i \in DOMAIN flows
  /\ flows[i].kind = "reorder" /\ flows[i].pc = "delay"
  /\ flows' = [flows EXCEPT
                 ![i].pc = "put",
                 ![i].k = 1,
                 ![i].local = ReorderLocal(GetAll(jobsDb), flows[i].id,
                                           flows[i].from, flows[i].to)]
  /\ UNCHANGED <<jobsDb, jobs, search, statusFilter, tagFilter, page,
                 totalPages, loading, ops, ioFaults, formError, now, limit, view, offBoard>>

\* One iteration of `for (const j of jobs) await db.put('jobs', j)`.
ReorderPut(i) ==
  /\ i \in DOMAIN flows
  /\ flows[i].kind = "reorder" /\ flows[i].pc = "put"
  /\ flows[i].k <= Len(flows[i].local)
  /\ jobsDb' = Put(jobsDb, flows[i].local[flows[i].k])
  /\ flows' = WrittenBy(i, [flows EXCEPT ![i].k = flows[i].k + 1])
  /\ UNCHANGED <<jobs, search, statusFilter, tagFilter, page, totalPages,
                 loading, ops, ioFaults, formError, now, limit, view, offBoard>>

\* A put of the write loop ends in an I/O error: reorderJob throws and
\* handleDragEnd's catch calls loadJobs().
ReorderPutFails(i) ==
  /\ i \in DOMAIN flows
  /\ flows[i].kind = "reorder" /\ flows[i].pc = "put"
  /\ flows[i].k <= Len(flows[i].local)
  /\ ioFaults < MaxIOFaults
  /\ ioFaults' = ioFaults + 1
  /\ loading' = TRUE
  /\ flows' = StartLoad(i, [flows EXCEPT ![i].why = "io"])
  /\ UNCHANGED <<jobsDb, jobs, search, statusFilter, tagFilter, page,
                 totalPages, ops, formError, now, limit, view, offBoard>>

\* The last put has resolved: reorderJob returns and handleDragEnd ends.
ReorderReturn(i) ==
  /\ i \in DOMAIN flows
  /\ flows[i].kind = "reorder" /\ flows[i].pc = "put"
  /\ flows[i].k > Len(flows[i].local)
  /\ flows' = RemoveAt(flows, i)
  /\ UNCHANGED <<jobsDb, jobs, search, statusFilter, tagFilter, page,
                 totalPages, loading, ops, ioFaults, formError, now, limit, view, offBoard>>

\* ------------------------------------------------------------------ handleArchive
\* The archive button of a displayed job: updateJob with the status toggled
\* from the displayed record's status.
Archive(idx) ==
  /\ view = "jobs"
  /\ ops > 0
  /\ Len(flows) < limit
  /\ ~loading
  /\ idx \in 1..Len(jobs)
  /\ flows' = Append(flows, [NewFlow("archive", CurParams)
                               EXCEPT !.id = jobs[idx].id,
                                      !.status = IF jobs[idx].status = "active"
                                                 THEN "archived" ELSE "active"])
  /\ ops' = ops - 1
  /\ UNCHANGED <<jobsDb, jobs, search, statusFilter, tagFilter, page,
                 totalPages, loading, ioFaults, formError, now, limit, view, offBoard>>

\* updateJob: shouldError() is true; handleArchive's catch only logs.
ArchiveInjected(i) ==
  /\ i \in DOMAIN flows
  /\ flows[i].kind = "archive" /\ flows[i].pc = "delay"
  /\ flows' = RemoveAt(flows, i)
  /\ UNCHANGED <<jobsDb, jobs, search, statusFilter, tagFilter, page,
                 totalPages, loading, ops, ioFaults, formError, now, limit, view, offBoard>>

\* updateJob: the delay ends, shouldError() is false, db.get reads the record.
ArchiveRead(i) ==
  /\ i \in DOMAIN flows
  /\ flows[i].kind = "archive" /\ flows[i].pc = "delay"
  /\ flows' = [flows EXCEPT ![i].pc = "put", ![i].rec = jobsDb[flows[i].id]]
  /\ UNCHANGED <<jobsDb, jobs, search, statusFilter, tagFilter, page,
                 totalPages, loading, ops, ioFaults, formError, now, limit, view, offBoard>>

\* updateJob: db.put of { ...job, ...updates }.
ArchivePut(i) ==
  /\ i \in DOMAIN flows
  /\ flows[i].kind = "archive" /\ flows[i].pc = "put"
  /\ jobsDb' = Put(jobsDb, [flows[i].rec EXCEPT !.status = flows[i].status])
  /\ flows' = WrittenBy(i, [flows EXCEPT ![i].pc = "written"])
  /\ UNCHANGED <<jobs, search, statusFilter, tagFilter, page, totalPages,
                 loading, ops, ioFaults, formError, now, limit, view, offBoard>>

\* updateJob has returned: handleArchive calls loadJobs().
ArchiveReload(i) ==
  /\ i \in DOMAIN flows
  /\ flows[i].kind = "archive" /\ flows[i].pc = "written"
  /\ loading' = TRUE
  /\ flows' = StartLoad(i, flows)
  /\ UNCHANGED <<jobsDb, jobs, search, statusFilter, tagFilter, page,
                 totalPages, ops, ioFaults, formError, now, limit, view, offBoard>>

\* ------------------------------------------------------------------ JobModal.handleSubmit
\* What the user types into the title and slug fields.
FormTitles == {<<" ">>, <<"D">>}
FormSlugs == {<< >>, <<"a">>}

\* The form's job prop: a displayed record (edit) or none (create).
NoJob == [id |-> 0]

\* const slug = formData.slug || formData.title.toLowerCase().replace(/\s+/g, '-')
FormSlug(title, slugField) == IF slugField # << >> THEN slugField ELSE Slugify(title)

\* allJobs.some(j => j.slug === slug && j.id !== job?.id)
SlugTaken(allJobs, slug, jobId) ==
  \E n \in 1..Len(allJobs) : allJobs[n].slug = slug /\ allJobs[n].id # jobId

\* The submit of the form opened on `job` with the title and slug fields as
\* typed: a blank title is refused at once; otherwise db.getAll('jobs') is
\* issued for the slug check.
Submit(job, title, slugField) ==
  /\ view = "jobs"
  /\ ops > 0
  /\ Len(flows) < limit
  /\ ops' = ops - 1
  /\ IF IsBlank(title)
     THEN /\ formError' = "Title is required"
          /\ UNCHANGED flows
     ELSE /\ formError' = ""
          /\ flows' = Append(flows,
               [NewFlow(IF job.id = 0 THEN "create" ELSE "edit", CurParams)
                  EXCEPT !.pc = "check",
                         !.calls = 0,
                         !.id = job.id,
                         !.local = GetAll(jobsDb),
                         !.data = [title |-> title,
                                   slug |-> FormSlug(title, slugField),
                                   status |-> IF job.id = 0 THEN "active" ELSE job.status,
                                   tags |-> IF job.id = 0 THEN << >> ELSE job.tags,
                                   \* order: job?.order ?? allJobs.length
                                   order |-> IF job.id = 0 THEN Cardinality(DOMAIN jobsDb)
                                             ELSE job.order]])
  /\ UNCHANGED <<jobsDb, jobs, search, statusFilter, tagFilter, page, totalPages,
                 loading, now, ioFaults, limit, view, offBoard>>

\* The Create Job button (always shown) and the form's submit.
SubmitCreate(title, slugField) == Submit(NoJob, title, slugField)

\* The edit button of a displayed job (shown while not loading) and the
\* form's submit; the fields start as the job's title and slug.
SubmitEdit(idx, title, slugField) ==
  /\ ~loading
  /\ idx \in 1..Len(jobs)
  /\ title \in FormTitles \cup {jobs[idx].title}
  /\ slugField \in FormSlugs \cup {jobs[idx].slug}
  /\ Submit(jobs[idx], title, slugField)

\* The slug is taken by another job: 'Slug must be unique'.
SubmitSlugTaken(i) ==
  /\ i \in DOMAIN flows
  /\ flows[i].kind \in {"create", "edit"} /\ flows[i].pc = "check"
  /\ SlugTaken(flows[i].local, flows[i].data.slug, flows[i].id)
  /\ formError' = "Slug must be unique"
  /\ flows' = RemoveAt(flows, i)
  /\ UNCHANGED <<jobsDb, jobs, search, statusFilter, tagFilter, page, totalPages,
                 loading, now, ops, ioFaults, limit, view, offBoard>>

\* The slug is free: createJob or updateJob is called.
SubmitCall(i) ==
  /\ i \in DOMAIN flows
  /\ flows[i].kind \in {"create", "edit"} /\ flows[i].pc = "check"
  /\ ~SlugTaken(flows[i].local, flows[i].data.slug, flows[i].id)
  /\ flows' = [flows EXCEPT ![i].pc = "delay", ![i].local = << >>,
                            ![i].calls = flows[i].calls + 1]
  /\ UNCHANGED <<jobsDb, jobs, search, statusFilter, tagFilter, page, totalPages,
                 loading, formError, now, ops, ioFaults, limit, view, offBoard>>

\* createJob/updateJob: shouldError() is true; the form shows the message.
SubmitInjected(i) ==
  /\ i \in DOMAIN flows
  /\ flows[i].kind \in {"create", "edit"} /\ flows[i].pc = "delay"
  /\ formError' = IF flows[i].kind = "create" THEN "Failed to create job"
                  ELSE "Failed to update job"
  /\ flows' = RemoveAt(flows, i)
  /\ UNCHANGED <<jobsDb, jobs, search, statusFilter, tagFilter, page, totalPages,
                 loading, now, ops, ioFaults, limit, view, offBoard>>

\* createJob: db.put of { ...job, id: Date.now().toString(), createdAt }.
CreatePut(i) ==
  /\ i \in DOMAIN flows
  /\ flows[i].kind = "create" /\ flows[i].pc = "delay"
  /\ jobsDb' = Put(jobsDb, [id |-> now,
                            title |-> flows[i].data.title,
                            slug |-> flows[i].data.slug,
                            status |-> flows[i].data.status,
                            tags |-> flows[i].data.tags,
                            order |-> flows[i].data.order])
  /\ now' = now + 1
  /\ flows' = WrittenBy(i, [flows EXCEPT ![i].pc = "written"])
  /\ UNCHANGED <<jobs, search, statusFilter, tagFilter, page, totalPages, loading,
                 formError, ops, ioFaults, limit, view, offBoard>>

\* updateJob: the delay ends, shouldError() is false, db.get reads the record.
EditRead(i) ==
  /\ i \in DOMAIN flows
  /\ flows[i].kind = "edit" /\ flows[i].pc = "delay"
  /\ flows' = [flows EXCEPT ![i].pc = "put", ![i].rec = jobsDb[flows[i].id]]
  /\ UNCHANGED <<jobsDb, jobs, search, statusFilter, tagFilter, page, totalPages,
                 loading, formError, now, ops, ioFaults, limit, view, offBoard>>

\* updateJob: db.put of { ...job, ...updates } with the form's jobData.
EditPut(i) ==
  /\ i \in DOMAIN flows
  /\ flows[i].kind = "edit" /\ flows[i].pc = "put"
  /\ jobsDb' = Put(jobsDb, [id |-> flows[i].rec.id,
                            title |-> flows[i].data.title,
                            slug |-> flows[i].data.slug,
                            status |-> flows[i].data.status,
                            tags |-> flows[i].data.tags,
                            order |-> flows[i].data.order])
  /\ flows' = WrittenBy(i, [flows EXCEPT ![i].pc = "written"])
  /\ UNCHANGED <<jobs, search, statusFilter, tagFilter, page, totalPages, loading,
                 formError, now, ops, ioFaults, limit, view, offBoard>>

\* The remote call has returned: onSave() is loadJobs(); onClose().
SubmitSaved(i) ==
  /\ i \in DOMAIN flows
  /\ flows[i].kind \in {"create", "edit"} /\ flows[i].pc = "written"
  /\ loading' = TRUE
  /\ flows' = StartLoad(i, flows)
  /\ UNCHANGED <<jobsDb, jobs, search, statusFilter, tagFilter, page, totalPages,
                 formError, now, ops, ioFaults, limit, view, offBoard>>

\* ------------------------------------------------------------------ KanbanBoard
\* The job whose pipeline the kanban board shows.
KanbanJob == 1

\* db.getAll('candidates'): the records in key order.
GetAllCandidates(db) == [c \in 1..Cardinality(DOMAIN db) |-> db[c]]

\* mockAPI.getCandidates({ jobId, pageSize: 1000 }) after its delay: the
\* job's candidates; the first page holds them all.
GetCandidates(db, jobId) ==
  SelectSeq(GetAllCandidates(db), LAMBDA c : c.jobId = jobId)

\* An `updates` object without a note property.
NoNote == <<"undefined">>

\* One kanban handler in flight.  id, stage, note: the candidate moved, the
\* destination column and updates.note; rec: the record updateCandidate read; res:
\* getCandidates' result; calls: the updateCandidate calls the handler has
\* made.  why, preCand, preTimeline, foreign record, for the
\* properties, how the remote call ended, the two stores when the handler
\* started, and whether another handler wrote them since.
NewMove(kind) ==
  [kind |-> kind, pc |-> "delay", id |-> 0, stage |-> "", note |-> NoNote,
   rec |-> << >>, res |-> << >>,
   calls |-> IF kind = "move" THEN 1 ELSE 0,
   why |-> "",
   preCand |-> IF kind = "move" THEN candidatesDb ELSE << >>,
   preTimeline |-> IF kind = "move" THEN timelinesDb ELSE << >>,
   foreign |-> FALSE]

MoveWrittenBy(i, ms) ==
  [n \in 1..Len(ms) |->
     IF n # i /\ ms[n].kind = "move" THEN [ms[n] EXCEPT !.foreign = TRUE] ELSE ms[n]]

\* EventNote that ignores updates.note.
EventNoteDefaultOnly(note, stage) == <<"Moved to ", stage>>

\* The note of the event: updates.note || `Moved to ${updates.stage}`; an
\* absent note and the empty string are both falsy.
EventNote(note, stage) ==
  IF note # NoNote /\ note # << >> THEN note ELSE <<"Moved to ", stage>>

\* { ...candidate, ...updates } for updates = { stage } or { stage, note }.
Merge(candidate, updates) ==
  LET staged == [candidate EXCEPT !.stage = updates.stage]
  IN IF updates.note = NoNote
     THEN staged
     ELSE [k \in DOMAIN staged \cup {"note"} |->
             IF k = "note" THEN updates.note ELSE staged[k]]

\* The timeline entry of updateCandidate.
StageEvent(id, stage, note) ==
  [candidateId |-> id, stage |-> stage, note |-> EventNote(note, stage), type |-> ""]

\* StageChanged without the comparison with the stored stage.
StageChangedAlways(updates, candidate) == updates.stage # ""

\* updates.stage && updates.stage !== candidate.stage
StageChanged(updates, candidate) == updates.stage # "" /\ updates.stage # candidate.stage

\* getCandidates: the delay ends and getAll reads the store.
KanbanLoadRead(i) ==
  /\ i \in DOMAIN moves
  /\ moves[i].pc = "loadDelay"
  /\ moves' = [moves EXCEPT ![i].pc = "loadApply",
                            ![i].res = GetCandidates(candidatesDb, KanbanJob)]
  /\ UNCHANGED <<builderVars, boardVars, profileVars, now, ops, ioFaults, limit, view, candidatesDb, timelinesDb,
                 candidates, kanbanLoading>>

\* KanbanLoadApply with a reload after a failed move that does not call
\* setCandidates: the display stays as it is.
KanbanLoadApplyKeepsDisplay(i) ==
  /\ i \in DOMAIN moves
  /\ moves[i].pc = "loadApply"
  /\ candidates' = IF moves[i].kind = "load" THEN moves[i].res ELSE candidates
  /\ kanbanLoading' = FALSE
  /\ moves' = RemoveAt(moves, i)
  /\ UNCHANGED <<builderVars, boardVars, profileVars, now, ops, ioFaults, limit, view,
                 candidatesDb, timelinesDb>>

\* setCandidates(result.data); finally setLoading(false): the handler ends.
KanbanLoadApply(i) ==
  /\ i \in DOMAIN moves
  /\ moves[i].pc = "loadApply"
  /\ candidates' = moves[i].res
  /\ kanbanLoading' = FALSE
  /\ moves' = RemoveAt(moves, i)
  /\ UNCHANGED <<builderVars, boardVars, profileVars, now, ops, ioFaults, limit, view, candidatesDb, timelinesDb>>

\* A drop of displayed candidate idx on the column of newStage: the optimistic
\* stage and the call of updateCandidate(candidateId, { stage: newStage }).
DropCandidate(idx, newStage) ==
  /\ view = "detail"
  /\ ops > 0
  /\ Len(moves) < limit
  /\ ~kanbanLoading
  /\ idx \in 1..Len(candidates)
  /\ candidates' = [candidates EXCEPT ![idx].stage = newStage]
  /\ moves' = Append(moves, [NewMove("move") EXCEPT !.id = candidates[idx].id,
                                                     !.stage = newStage])
  /\ ops' = ops - 1
  /\ UNCHANGED <<builderVars, boardVars, profileVars, now, ioFaults, limit, view, candidatesDb, timelinesDb, kanbanLoading>>

\* MoveInjected with the throw after the put of the candidate.
MoveInjectedAfterPut(i) ==
  /\ i \in DOMAIN moves
  /\ moves[i].kind = "move" /\ moves[i].pc = "delay"
  /\ candidatesDb' = [candidatesDb EXCEPT ![moves[i].id].stage = moves[i].stage]
  /\ kanbanLoading' = TRUE
  /\ moves' = [moves EXCEPT ![i].why = "injected", ![i].pc = "loadDelay"]
  /\ UNCHANGED <<builderVars, boardVars, profileVars, now, ops, ioFaults, limit, view, timelinesDb, candidates>>

\* MoveInjected with a catch that calls updateCandidate again.
MoveInjectedRetry(i) ==
  /\ i \in DOMAIN moves
  /\ moves[i].kind = "move" /\ moves[i].pc = "delay"
  /\ moves[i].calls < 3
  /\ moves' = [moves EXCEPT ![i].why = "injected", ![i].calls = moves[i].calls + 1]
  /\ UNCHANGED <<builderVars, boardVars, profileVars, now, ops, ioFaults, limit, view,
                 candidatesDb, timelinesDb, candidates, kanbanLoading>>

\* updateCandidate: shouldError() is true; handleDragEnd's catch calls
\* loadCandidates().
MoveInjected(i) ==
  /\ i \in DOMAIN moves
  /\ moves[i].kind = "move" /\ moves[i].pc = "delay"
  /\ kanbanLoading' = TRUE
  /\ moves' = [moves EXCEPT ![i].why = "injected", ![i].pc = "loadDelay"]
  /\ UNCHANGED <<builderVars, boardVars, profileVars, now, ops, ioFaults, limit, view, candidatesDb, timelinesDb, candidates>>

\* updateCandidate: the delay ends, shouldError() is false, db.get reads the
\* candidate.
MoveRead(i) ==
  /\ i \in DOMAIN moves
  /\ moves[i].kind = "move" /\ moves[i].pc = "delay"
  /\ moves' = [moves EXCEPT ![i].pc = "put", ![i].rec = candidatesDb[moves[i].id]]
  /\ UNCHANGED <<builderVars, boardVars, profileVars, now, ops, ioFaults, limit, view, candidatesDb, timelinesDb,
                 candidates, kanbanLoading>>

\* MovePut with a put whose request never calls back.
MovePutNeverEnds(i) ==
  /\ i \in DOMAIN moves
  /\ moves[i].kind = "move" /\ moves[i].pc = "put"
  /\ FALSE
  /\ UNCHANGED <<builderVars, boardVars, profileVars, now, ops, ioFaults, limit, view,
                 kanbanVars>>

\* updateCandidate: db.put of { ...candidate, ...updates }.
MovePut(i) ==
  /\ i \in DOMAIN moves
  /\ moves[i].kind = "move" /\ moves[i].pc = "put"
  /\ candidatesDb' = [candidatesDb EXCEPT ![moves[i].id] =
                        Merge(moves[i].rec, [stage |-> moves[i].stage,
                                             note |-> moves[i].note])]
  /\ moves' = MoveWrittenBy(i, [moves EXCEPT ![i].pc = "written"])
  /\ UNCHANGED <<builderVars, boardVars, profileVars, now, ops, ioFaults, limit, view, timelinesDb, candidates, kanbanLoading>>

\* updateCandidate after the put: the timeline entry when the stage changed,
\* then the return.
MoveLog(i) ==
  /\ i \in DOMAIN moves
  /\ moves[i].kind = "move" /\ moves[i].pc = "written"
  /\ IF StageChanged([stage |-> moves[i].stage], moves[i].rec)
     THEN /\ timelinesDb' = Append(timelinesDb, StageEvent(moves[i].id, moves[i].stage, moves[i].note))
          /\ moves' = MoveWrittenBy(i, [moves EXCEPT ![i].pc = "returned"])
     ELSE /\ timelinesDb' = timelinesDb
          /\ moves' = [moves EXCEPT ![i].pc = "returned"]
  /\ UNCHANGED <<builderVars, boardVars, profileVars, now, ops, ioFaults, limit, view, candidatesDb, candidates, kanbanLoading>>

\* updateCandidate has returned: handleDragEnd ends.
MoveEnd(i) ==
  /\ i \in DOMAIN moves
  /\ moves[i].kind = "move" /\ moves[i].pc = "returned"
  /\ moves' = RemoveAt(moves, i)
  /\ UNCHANGED <<builderVars, boardVars, profileVars, now, ops, ioFaults, limit, view, candidatesDb, timelinesDb,
                 candidates, kanbanLoading>>

\* The stages the seeded candidates are in (the source draws from all six).
SeedStages == {"applied", "screen"}

\* The kanban board of KanbanJob has just been mounted: its effect has called
\* loadCandidates().
InitKanban ==
  /\ jobsDb = SeedJobs
  /\ jobs = << >>
  /\ search = << >>
  /\ statusFilter = ""
  /\ tagFilter = ""
  /\ page = 1
  /\ totalPages = 1
  /\ loading = FALSE
  /\ flows = << >>
  /\ formError = ""
  /\ now = NSeed + 1
  /\ ops = MaxRaceOps
  /\ ioFaults = 0
  /\ limit = MaxInFlight
  /\ view = "detail"
  /\ \E job \in [1..NCand -> {KanbanJob, KanbanJob + 1}], stage \in [1..NCand -> SeedStages] :
       candidatesDb = [c \in 1..NCand |-> SeedCandidate(c, job[c], stage[c])]
  /\ timelinesDb = [c \in 1..NCand |-> SeedEvent(c)]
  /\ candidates = << >>
  /\ kanbanLoading = TRUE
  /\ moves = <<[NewMove("load") EXCEPT !.pc = "loadDelay"]>>
  /\ BuilderIdle
  /\ ProfileIdle

NextKanban ==
  \/ \E idx \in 1..NCand, newStage \in Stages : DropCandidate(idx, newStage)
  \/ \E i \in FlowIndexes : KanbanLoadRead(i)
  \/ \E i \in FlowIndexes : KanbanLoadApply(i)
  \/ \E i \in FlowIndexes : MoveInjected(i)
  \/ \E i \in FlowIndexes : MoveRead(i)
  \/ \E i \in FlowIndexes : MovePut(i)
  \/ \E i \in FlowIndexes : MoveLog(i)
  \/ \E i \in FlowIndexes : MoveEnd(i)

\* updateCandidate on its own: one call with any candidate, any stage and a
\* note that is absent, empty or a text.
UpdateNotes == {NoNote, << >>, <<"n">>}

InitUpdate ==
  /\ jobsDb = SeedJobs
  /\ jobs = << >>
  /\ search = << >>
  /\ statusFilter = ""
  /\ tagFilter = ""
  /\ page = 1
  /\ totalPages = 1
  /\ loading = FALSE
  /\ flows = << >>
  /\ formError = ""
  /\ now = NSeed + 1
  /\ ops = 0
  /\ ioFaults = 0
  /\ limit = 1
  /\ view = "detail"
  /\ \E job \in [1..NCand -> {KanbanJob, KanbanJob + 1}], stage \in [1..NCand -> SeedStages] :
       candidatesDb = [c \in 1..NCand |-> SeedCandidate(c, job[c], stage[c])]
  /\ timelinesDb = [c \in 1..NCand |-> SeedEvent(c)]
  /\ candidates = GetCandidates(candidatesDb, KanbanJob)
  /\ kanbanLoading = FALSE
  /\ \E id \in 1..NCand, stage \in Stages, note \in UpdateNotes :
       moves = <<[NewMove("move") EXCEPT !.id = id, !.stage = stage, !.note = note]>>
  /\ BuilderIdle
  /\ ProfileIdle

NextUpdate ==
  \/ \E i \in FlowIndexes : MoveInjected(i)
  \/ \E i \in FlowIndexes : MoveRead(i)
  \/ \E i \in FlowIndexes : MovePut(i)
  \/ \E i \in FlowIndexes : MoveLog(i)
  \/ \E i \in FlowIndexes : MoveEnd(i)
  \/ \E i \in FlowIndexes : KanbanLoadRead(i)
  \/ \E i \in FlowIndexes : KanbanLoadApply(i)

\* ------------------------------------------------------------------ CandidateProfile
\* s.reverse()
Reverse(s) == [n \in 1..Len(s) |-> s[Len(s) + 1 - n]]

\* mockAPI.getTimeline(candidateId) after its delay: the candidate's events,
\* newest first.  The events of the store are in the order they were written
\* and no two of them are written in the same millisecond.
GetTimeline(db, candidateId) ==
  Reverse(SelectSeq(db, LAMBDA t : t.candidateId = candidateId))

\* db.get('jobs', id)
GetJob(db, id) == IF id \in DOMAIN db THEN db[id] ELSE Undefined

\* One profile handler in flight: the mount's load or handleAddNote; rec: the
\* result of a db.get; res: getTimeline's result.
NewProfile(kind) == [kind |-> kind, pc |-> "get", rec |-> Null, res |-> << >>]

\* load: setCandidate(candidateData) and the call of getTimeline.
ProfileLoadCandidate(i) ==
  /\ i \in DOMAIN profiles
  /\ profiles[i].kind = "load" /\ profiles[i].pc = "get"
  /\ profileCandidate' = profiles[i].rec
  /\ profiles' = [profiles EXCEPT ![i].pc = "timelineDelay"]
  /\ UNCHANGED <<boardVars, kanbanVars, builderVars, now, ops, ioFaults, limit, view,
                 profileId, timeline, profileJob, profileLoading>>

\* getTimeline: the delay ends and getAll reads the store.
TimelineRead(i) ==
  /\ i \in DOMAIN profiles
  /\ profiles[i].pc = "timelineDelay"
  /\ profiles' = [profiles EXCEPT ![i].pc = "timelineApply",
                                  ![i].res = GetTimeline(timelinesDb, profileId)]
  /\ UNCHANGED <<boardVars, kanbanVars, builderVars, now, ops, ioFaults, limit, view,
                 profileId, profileCandidate, timeline, profileJob, profileLoading>>

\* load: setTimeline(timelineData) and db.get('jobs', candidateData.jobId).
ProfileLoadTimeline(i) ==
  /\ i \in DOMAIN profiles
  /\ profiles[i].kind = "load" /\ profiles[i].pc = "timelineApply"
  /\ timeline' = profiles[i].res
  /\ profiles' = [profiles EXCEPT ![i].pc = "job",
                                  ![i].rec = GetJob(jobsDb, profiles[i].rec.jobId)]
  /\ UNCHANGED <<boardVars, kanbanVars, builderVars, now, ops, ioFaults, limit, view,
                 profileId, profileCandidate, profileJob, profileLoading>>

\* load: setJob(jobData); finally setLoading(false): the handler ends.
ProfileLoadJob(i) ==
  /\ i \in DOMAIN profiles
  /\ profiles[i].kind = "load" /\ profiles[i].pc = "job"
  /\ profileJob' = profiles[i].rec
  /\ profileLoading' = FALSE
  /\ profiles' = RemoveAt(profiles, i)
  /\ UNCHANGED <<boardVars, kanbanVars, builderVars, now, ops, ioFaults, limit, view,
                 profileId, profileCandidate, timeline>>

\* The timeline entry of handleAddNote.
NoteEvent(id, stage, note) ==
  [candidateId |-> id, stage |-> stage, note |-> note, type |-> "note"]

\* AddNote that tests the note for emptiness without trimming it.
AddNoteUntrimmed(note) ==
  /\ view = "profile"
  /\ ops > 0
  /\ Len(profiles) < limit
  /\ ~profileLoading
  /\ ops' = ops - 1
  /\ IF note = << >>
     THEN UNCHANGED <<timelinesDb, profiles>>
     ELSE /\ timelinesDb' = Append(timelinesDb,
                                   NoteEvent(profileId, profileCandidate.stage, note))
          /\ profiles' = Append(profiles, [NewProfile("note") EXCEPT !.pc = "put"])
  /\ UNCHANGED <<boardVars, builderVars, now, ioFaults, limit, view, candidatesDb,
                 candidates, kanbanLoading, moves, profileId, profileCandidate,
                 timeline, profileJob, profileLoading>>

\* The Add Note button with `note` typed: nothing when it is blank; otherwise
\* db.put('timelines', ...) with the displayed candidate's stage.
AddNote(note) ==
  /\ view = "profile"
  /\ ops > 0
  /\ Len(profiles) < limit
  /\ ~profileLoading
  /\ ops' = ops - 1
  /\ IF IsBlank(note)
     THEN UNCHANGED <<timelinesDb, profiles>>
     ELSE /\ timelinesDb' = Append(timelinesDb,
                                   NoteEvent(profileId, profileCandidate.stage, note))
          /\ profiles' = Append(profiles, [NewProfile("note") EXCEPT !.pc = "put"])
  /\ UNCHANGED <<boardVars, builderVars, now, ioFaults, limit, view, candidatesDb,
                 candidates, kanbanLoading, moves, profileId, profileCandidate,
                 timeline, profileJob, profileLoading>>

\* handleAddNote: the put has ended; the call of getTimeline.
NoteStored(i) ==
  /\ i \in DOMAIN profiles
  /\ profiles[i].kind = "note" /\ profiles[i].pc = "put"
  /\ profiles' = [profiles EXCEPT ![i].pc = "timelineDelay"]
  /\ UNCHANGED <<boardVars, kanbanVars, builderVars, now, ops, ioFaults, limit, view,
                 profileId, profileCandidate, timeline, profileJob, profileLoading>>

\* handleAddNote: setTimeline(timelineData); setNote(''): the handler ends.
NoteApply(i) ==
  /\ i \in DOMAIN profiles
  /\ profiles[i].kind = "note" /\ profiles[i].pc = "timelineApply"
  /\ timeline' = profiles[i].res
  /\ profiles' = RemoveAt(profiles, i)
  /\ UNCHANGED <<boardVars, kanbanVars, builderVars, now, ops, ioFaults, limit, view,
                 profileId, profileCandidate, profileJob, profileLoading>>

\* The notes typed in the profile: none, blanks, a text.
NoteTexts == {<< >>, <<" ">>, <<"n">>}

\* The profile of some candidate has just been mounted: its effect has issued
\* db.get('candidates', candidateId).
InitProfile ==
  /\ jobsDb = SeedJobs
  /\ jobs = << >>
  /\ search = << >>
  /\ statusFilter = ""
  /\ tagFilter = ""
  /\ page = 1
  /\ totalPages = 1
  /\ loading = FALSE
  /\ flows = << >>
  /\ formError = ""
  /\ now = NSeed + 1
  /\ ops = MaxOps
  /\ ioFaults = 0
  /\ limit = MaxInFlight
  /\ view = "profile"
  /\ \E job \in [1..NCand -> {KanbanJob, KanbanJob + 1}], stage \in [1..NCand -> SeedStages] :
       candidatesDb = [c \in 1..NCand |-> SeedCandidate(c, job[c], stage[c])]
  /\ timelinesDb = [c \in 1..NCand |-> SeedEvent(c)]
  /\ candidates = << >>
  /\ kanbanLoading = FALSE
  /\ moves = << >>
  /\ BuilderIdle
  /\ profileId \in 1..NCand
  /\ profileCandidate = Null
  /\ timeline = << >>
  /\ profileJob = Null
  /\ profileLoading = TRUE
  /\ profiles = <<[NewProfile("load") EXCEPT !.rec = candidatesDb[profileId]]>>

NextProfile ==
  \/ \E note \in NoteTexts : AddNote(note)
  \/ \E i \in FlowIndexes : ProfileLoadCandidate(i)
  \/ \E i \in FlowIndexes : TimelineRead(i)
  \/ \E i \in FlowIndexes : ProfileLoadTimeline(i)
  \/ \E i \in FlowIndexes : ProfileLoadJob(i)
  \/ \E i \in FlowIndexes : NoteStored(i)
  \/ \E i \in FlowIndexes : NoteApply(i)

\* ------------------------------------------------------------------ AssessmentBuilder
\* db.get('assessments', jobId)
GetAssessment(db, jobId) == IF jobId \in DOMAIN db THEN db[jobId] ELSE Undefined

\* SaveRecord that keeps the first section only.
SaveRecordFirstSection(jobId, a) ==
  [jobId |-> IF a.jobId # 0 THEN a.jobId ELSE jobId,
   sections |-> IF Len(a.sections) > 1 THEN SubSeq(a.sections, 1, 1) ELSE a.sections]

\* The record { jobId, ...assessment } that saveAssessment puts: a jobId
\* property of the assessment object overrides the argument (0: it has none).
SaveRecord(jobId, a) ==
  [jobId |-> IF a.jobId # 0 THEN a.jobId ELSE jobId, sections |-> a.sections]

\* db.put('assessments', record): the key is the record's jobId.
PutAssessment(db, rec) ==
  [j \in DOMAIN db \cup {rec.jobId} |-> IF j = rec.jobId THEN rec ELSE db[j]]

\* One builder handler in flight: the mount's load or a save; a: the
\* assessment object saveAssessment was called with; res: db.get's result;
\* calls: the saveAssessment calls the handler has made.
NewSave(kind) ==
  [kind |-> kind, pc |-> "delay", a |-> << >>, res |-> << >>,
   calls |-> IF kind = "save" THEN 1 ELSE 0]

\* getAssessment: the delay ends and db.get reads the record.
BuilderLoadRead(i) ==
  /\ i \in DOMAIN saves
  /\ saves[i].kind = "load" /\ saves[i].pc = "delay"
  /\ saves' = [saves EXCEPT ![i].pc = "apply",
                            ![i].res = GetAssessment(assessmentsDb, builderJob)]
  /\ UNCHANGED <<boardVars, kanbanVars, profileVars, now, ops, ioFaults, limit, view, assessmentsDb,
                 assessment, builderJob, builderLoading, saving>>

\* if (assessmentData) setAssessment(assessmentData); finally setLoading(false).
BuilderLoadApply(i) ==
  /\ i \in DOMAIN saves
  /\ saves[i].kind = "load" /\ saves[i].pc = "apply"
  /\ assessment' = IF saves[i].res # Undefined THEN saves[i].res ELSE assessment
  /\ builderLoading' = FALSE
  /\ saves' = RemoveAt(saves, i)
  /\ UNCHANGED <<boardVars, kanbanVars, profileVars, now, ops, ioFaults, limit, view, assessmentsDb,
                 builderJob, saving>>

\* A builder button that replaces the sections of the assessment state.
Edit(sections) ==
  /\ view = "assessment"
  /\ ops > 0
  /\ ~builderLoading
  /\ builderJob # 0
  /\ assessment' = [assessment EXCEPT !.sections = sections]
  /\ ops' = ops - 1
  /\ UNCHANGED <<boardVars, kanbanVars, profileVars, ioFaults, limit, view, assessmentsDb, builderJob,
                 builderLoading, saving, saves>>

\* The sections of the assessment state, as a set.
SectionSet == {assessment.sections[n] : n \in 1..Len(assessment.sections)}

\* sections.map(s => s.id === sectionId ? f(s) : s), f a function on sections.
MapSection(sections, sectionId, f) ==
  [n \in 1..Len(sections) |->
     IF sections[n].id = sectionId THEN f[sections[n]] ELSE sections[n]]

\* addSection: a section `section-${Date.now()}` titled by its position.
AddSection ==
  /\ Len(assessment.sections) < MaxSections
  /\ Edit(Append(assessment.sections,
                 Section(now, <<"Section ", Len(assessment.sections) + 1>>, << >>)))
  /\ now' = now + 1

\* deleteSection(sectionId)
DeleteSection(sectionId) ==
  /\ \E n \in 1..Len(assessment.sections) : assessment.sections[n].id = sectionId
  /\ Edit(SelectSeq(assessment.sections, LAMBDA sec : sec.id # sectionId))
  /\ now' = now

\* addQuestion(sectionId): a short-text question `q-${Date.now()}`.
AddQuestion(sectionId) ==
  /\ \E n \in 1..Len(assessment.sections) :
       /\ assessment.sections[n].id = sectionId
       /\ Len(assessment.sections[n].questions) < MaxQuestions
  /\ Edit(MapSection(assessment.sections, sectionId,
            [sec \in SectionSet |-> [sec EXCEPT !.questions =
                            Append(sec.questions, Question(now, "short", << >>, FALSE))]]))
  /\ now' = now + 1

\* updateQuestion(sectionId, questionId, updates) with one field updated.
UpdateQuestion(sectionId, questionId, field, value) ==
  /\ \E n \in 1..Len(assessment.sections) :
       /\ assessment.sections[n].id = sectionId
       /\ \E q \in 1..Len(assessment.sections[n].questions) :
            /\ assessment.sections[n].questions[q].id = questionId
            /\ assessment.sections[n].questions[q][field] # value
  /\ Edit(MapSection(assessment.sections, sectionId,
            [sec \in SectionSet |-> [sec EXCEPT !.questions =
                            [q \in 1..Len(sec.questions) |->
                               IF sec.questions[q].id = questionId
                               THEN [sec.questions[q] EXCEPT ![field] = value]
                               ELSE sec.questions[q]]]]))
  /\ now' = now

\* The conditional select of a question's editor: None, or one of the other
\* questions of the section: onUpdate({ conditional: ... }).
SetConditional(sectionId, questionId, target) ==
  /\ \E n \in 1..Len(assessment.sections) :
       /\ assessment.sections[n].id = sectionId
       /\ \E q \in 1..Len(assessment.sections[n].questions) :
            /\ assessment.sections[n].questions[q].id = target
            /\ target # questionId
  /\ UpdateQuestion(sectionId, questionId, "conditional", Rule(target))

ClearConditional(sectionId, questionId) ==
  UpdateQuestion(sectionId, questionId, "conditional", NoRule)

\* deleteQuestion(sectionId, questionId)
DeleteQuestion(sectionId, questionId) ==
  /\ \E n \in 1..Len(assessment.sections) :
       /\ assessment.sections[n].id = sectionId
       /\ \E q \in 1..Len(assessment.sections[n].questions) :
            assessment.sections[n].questions[q].id = questionId
  /\ Edit(MapSection(assessment.sections, sectionId,
            [sec \in SectionSet |-> [sec EXCEPT !.questions =
                            SelectSeq(sec.questions, LAMBDA q : q.id # questionId)]]))
  /\ now' = now

\* The Save button (disabled while saving): saveAssessment(jobId, assessment).
Save ==
  /\ view = "assessment"
  /\ ops > 0
  /\ ~builderLoading
  /\ builderJob # 0
  /\ ~saving
  /\ saving' = TRUE
  /\ saves' = Append(saves, [NewSave("save") EXCEPT !.a = assessment])
  /\ ops' = ops - 1
  /\ UNCHANGED <<boardVars, kanbanVars, profileVars, now, ioFaults, limit, view, assessmentsDb,
                 assessment, builderJob, builderLoading>>

\* saveAssessment: shouldError() is true; the alert, finally setSaving(false).
SaveInjected(i) ==
  /\ i \in DOMAIN saves
  /\ saves[i].kind = "save" /\ saves[i].pc = "delay"
  /\ saving' = FALSE
  /\ saves' = RemoveAt(saves, i)
  /\ UNCHANGED <<boardVars, kanbanVars, profileVars, now, ops, ioFaults, limit, view, assessmentsDb,
                 assessment, builderJob, builderLoading>>

\* saveAssessment: db.put('assessments', { jobId, ...assessment }).
SavePut(i) ==
  /\ i \in DOMAIN saves
  /\ saves[i].kind = "save" /\ saves[i].pc = "delay"
  /\ assessmentsDb' = PutAssessment(assessmentsDb, SaveRecord(builderJob, saves[i].a))
  /\ saves' = [saves EXCEPT ![i].pc = "saved"]
  /\ UNCHANGED <<boardVars, kanbanVars, profileVars, now, ops, ioFaults, limit, view, assessment,
                 builderJob, builderLoading, saving>>

\* saveAssessment has returned: the alert, finally setSaving(false).
SaveEnd(i) ==
  /\ i \in DOMAIN saves
  /\ saves[i].kind = "save" /\ saves[i].pc = "saved"
  /\ saving' = FALSE
  /\ saves' = RemoveAt(saves, i)
  /\ UNCHANGED <<boardVars, kanbanVars, profileVars, now, ops, ioFaults, limit, view, assessmentsDb,
                 assessment, builderJob, builderLoading>>

\* The builder of some job has just been mounted: its effect is loading.
InitBuilder ==
  /\ jobsDb = SeedJobs
  /\ jobs = << >>
  /\ search = << >>
  /\ statusFilter = ""
  /\ tagFilter = ""
  /\ page = 1
  /\ totalPages = 1
  /\ loading = FALSE
  /\ flows = << >>
  /\ formError = ""
  /\ now = NSeed + 1
  /\ ops = MaxOps
  /\ ioFaults = 0
  /\ limit = MaxInFlight
  /\ view = "assessment"
  /\ KanbanIdle
  /\ ProfileIdle
  /\ assessmentsDb = SeedAssessments
  /\ assessment = [jobId |-> 0, sections |-> << >>]
  /\ builderJob \in SeedIds
  /\ builderLoading = TRUE
  /\ saving = FALSE
  /\ saves = <<NewSave("load")>>

SectionIds == 0..(NSeed + MaxOps)

NextBuilder ==
  \/ AddSection
  \/ \E sid \in SectionIds : DeleteSection(sid)
  \/ \E sid \in SectionIds : AddQuestion(sid)
  \/ \E sid, qid \in SectionIds, type \in {"short", "number"} :
       UpdateQuestion(sid, qid, "type", type)
  \/ \E sid, qid \in SectionIds, required \in BOOLEAN :
       UpdateQuestion(sid, qid, "required", required)
  \/ \E sid, qid, target \in SectionIds : SetConditional(sid, qid, target)
  \/ \E sid, qid \in SectionIds : ClearConditional(sid, qid)
  \/ \E sid, qid \in SectionIds : DeleteQuestion(sid, qid)
  \/ Save
  \/ \E i \in FlowIndexes : BuilderLoadRead(i)
  \/ \E i \in FlowIndexes : BuilderLoadApply(i)
  \/ \E i \in FlowIndexes : SaveInjected(i)
  \/ \E i \in FlowIndexes : SavePut(i)
  \/ \E i \in FlowIndexes : SaveEnd(i)

\* ------------------------------------------------------------------ specification
DropIndexes == 0..(NSeed + MaxOps)
StatusFilters == {"", "active", "archived"}

Next ==
  \/ \E from, to \in DropIndexes : Drop(from, to)
  \/ \E v \in StatusFilters : SetStatusFilter(v)
  \/ PrevPage
  \/ NextPage
  \/ \E idx \in 1..(NSeed + MaxOps) : Archive(idx)
  \/ \E title \in FormTitles, slugField \in FormSlugs : SubmitCreate(title, slugField)
  \/ \E idx \in 1..(NSeed + MaxOps) :
       \E title \in FormTitles \cup {jobs[n].title : n \in 1..Len(jobs)},
          slugField \in FormSlugs \cup {jobs[n].slug : n \in 1..Len(jobs)} :
         SubmitEdit(idx, title, slugField)
  \/ \E i \in FlowIndexes : LoadRead(i)
  \/ \E i \in FlowIndexes : LoadApply(i)
  \/ \E i \in FlowIndexes : LoadFinish(i)
  \/ \E i \in FlowIndexes : ReorderInjected(i)
  \/ \E i \in FlowIndexes : ReorderRead(i)
  \/ \E i \in FlowIndexes : ReorderPut(i)
  \/ \E i \in FlowIndexes : ReorderPutFails(i)
  \/ \E i \in FlowIndexes : ReorderReturn(i)
  \/ \E i \in FlowIndexes : ArchiveInjected(i)
  \/ \E i \in FlowIndexes : ArchiveRead(i)
  \/ \E i \in FlowIndexes : ArchivePut(i)
  \/ \E i \in FlowIndexes : ArchiveReload(i)
  \/ \E i \in FlowIndexes : SubmitSlugTaken(i)
  \/ \E i \in FlowIndexes : SubmitCall(i)
  \/ \E i \in FlowIndexes : SubmitInjected(i)
  \/ \E i \in FlowIndexes : CreatePut(i)
  \/ \E i \in FlowIndexes : EditRead(i)
  \/ \E i \in FlowIndexes : EditPut(i)
  \/ \E i \in FlowIndexes : SubmitSaved(i)

vars == <<boardVars, now, ops, ioFaults, limit, view, kanbanVars, builderVars, profileVars>>

Spec == Init /\ [][Next]_vars

\* A single user who waits for each handler to end before the next intent.
InitSeq ==
  /\ jobsDb = SeedJobs
  /\ jobs = << >>
  /\ search = << >>
  /\ statusFilter = ""
  /\ tagFilter = ""
  /\ page = 1
  /\ totalPages = 1
  /\ loading = TRUE
  /\ flows = <<[NewFlow("load", [search |-> << >>, status |-> "", tag |-> "",
                                 page |-> 1, pageSize |-> PageSize])
                 EXCEPT !.pc = "loadDelay"]>>
  /\ formError = ""
  /\ now = NSeed + 1
  /\ ops = MaxOps
  /\ ioFaults = 0
  /\ limit = 1
  /\ view = "jobs"
  /\ KanbanIdle
  /\ BuilderIdle
  /\ ProfileIdle

SpecSeq == InitSeq /\ [][Next]_vars

SpecKanban == InitKanban /\ [][NextKanban]_vars

SpecBuilder == InitBuilder /\ [][NextBuilder]_vars

SpecUpdate == InitUpdate /\ [][NextUpdate]_vars

\* getJobs on its own: the seeded jobs with any order values, any search,
\* status filter, tag and page; one loadJobs in flight.
SearchTexts == {<< >>, <<"c">>, <<"B">>}
TagFilters == {"", "Full-time"}

InitGetJobs ==
  /\ \E order \in [SeedIds -> 0..(NSeed - 1)] :
       jobsDb = [i \in SeedIds |-> [SeedJob(i) EXCEPT !.order = order[i]]]
  /\ jobs = << >>
  /\ search \in SearchTexts
  /\ statusFilter \in StatusFilters
  /\ tagFilter \in TagFilters
  /\ page \in 0..NSeed
  /\ totalPages = 1
  /\ loading = TRUE
  /\ flows = <<[NewFlow("load", CurParams) EXCEPT !.pc = "loadDelay"]>>
  /\ formError = ""
  /\ now = NSeed + 1
  /\ ops = 0
  /\ ioFaults = 0
  /\ limit = 1
  /\ view = "jobs"
  /\ KanbanIdle
  /\ BuilderIdle
  /\ ProfileIdle

NextGetJobs ==
  \/ \E i \in FlowIndexes : LoadRead(i)
  \/ \E i \in FlowIndexes : LoadApply(i)
  \/ \E i \in FlowIndexes : LoadFinish(i)

SpecGetJobs == InitGetJobs /\ [][NextGetJobs]_vars

\* The application with one of its views on screen: the jobs board, a job's
\* kanban board, a job's assessment builder or a candidate's profile.
InitApp == Init \/ InitKanban \/ InitBuilder \/ InitProfile

NextApp == Next \/ NextKanban \/ NextBuilder \/ NextProfile

SpecApp == InitApp /\ [][NextApp]_vars

\* The continuation of handler i after an await: the timer of mockAPI.delay
\* has fired or a store request has called back.
Resume(i) ==
  \/ LoadRead(i) \/ LoadApply(i) \/ LoadFinish(i)
  \/ ReorderInjected(i) \/ ReorderRead(i) \/ ReorderPut(i) \/ ReorderPutFails(i)
  \/ ReorderReturn(i)
  \/ ArchiveInjected(i) \/ ArchiveRead(i) \/ ArchivePut(i) \/ ArchiveReload(i)
  \/ SubmitSlugTaken(i) \/ SubmitCall(i) \/ SubmitInjected(i)
  \/ CreatePut(i) \/ EditRead(i) \/ EditPut(i) \/ SubmitSaved(i)
  \/ KanbanLoadRead(i) \/ KanbanLoadApply(i)
  \/ MoveInjected(i) \/ MoveRead(i) \/ MovePut(i) \/ MoveLog(i) \/ MoveEnd(i)
  \/ BuilderLoadRead(i) \/ BuilderLoadApply(i)
  \/ SaveInjected(i) \/ SavePut(i) \/ SaveEnd(i)
  \/ ProfileLoadCandidate(i) \/ TimelineRead(i) \/ ProfileLoadTimeline(i)
  \/ ProfileLoadJob(i) \/ NoteStored(i) \/ NoteApply(i)

\* The event loop runs a continuation that is ready.
Callback == \E i \in FlowIndexes : Resume(i)

\* The application with an event loop that does not stop while a timer or a
\* store request is due: setTimeout fires after at most 1200 ms, and every
\* store request ends in onsuccess or onerror.
SpecAppFair == SpecApp /\ WF_vars(Callback)

\* reorderJob on its own: any collection whose orders are a permutation of
\* 0..N-1, any job, any pair of indexes.
InitReorder ==
  /\ \E p \in Permutations(1..NReorder) :
       jobsDb = [i \in 1..NReorder |-> [SeedJob(i) EXCEPT !.order = p[i] - 1]]
  /\ jobs = SortByOrder(GetAll(jobsDb))
  /\ search = << >>
  /\ statusFilter = ""
  /\ tagFilter = ""
  /\ page = 1
  /\ totalPages = 1
  /\ loading = FALSE
  /\ \E id \in 1..NReorder, from, to \in 0..(NReorder - 1) :
       flows = <<[NewFlow("reorder", CurParams)
                    EXCEPT !.id = id, !.from = from, !.to = to]>>
  /\ formError = ""
  /\ now = NReorder + 1
  /\ ops = 0
  /\ ioFaults = 0
  /\ limit = 1
  /\ view = "jobs"
  /\ KanbanIdle
  /\ BuilderIdle
  /\ ProfileIdle

NextReorder ==
  \/ \E i \in FlowIndexes : ReorderRead(i)
  \/ \E i \in FlowIndexes : ReorderPut(i)
  \/ \E i \in FlowIndexes : ReorderReturn(i)

SpecReorder == InitReorder /\ [][NextReorder]_vars

\* ------------------------------------------------------------------ properties
Orders(db) == [id \in DOMAIN db |-> db[id].order]

\* The stored order values are a contiguous permutation of [0..N-1].
IsPermutation(db) ==
  /\ \A a, b \in DOMAIN db : a # b => db[a].order # db[b].order
  /\ {db[id].order : id \in DOMAIN db} = 0..(Cardinality(DOMAIN db) - 1)

Ids(s) == [i \in 1..Len(s) |-> s[i].id]

\* Handler f is a reorder whose remote call has made all its puts.
ReorderDone(f) == f.kind = "reorder" /\ f.pc = "put" /\ f.k > Len(f.local)

\* Handler f is a reorder whose remote call threw.
ReorderFailed(f) == f.kind = "reorder" /\ f.why # ""

InFlight == {flows[i] : i \in 1..Len(flows)}

\* C1: on a collection whose orders are a permutation of [0..N-1], a successful
\* reorderJob(id, from, to) with from the job's current order, from # to, both
\* in bounds, leaves a permutation of [0..N-1] with the job at `to` and every
\* other pair of jobs in the same relative order.
C1_ReorderShift ==
  \A f \in InFlight :
    ( /\ ReorderDone(f)
      /\ ~f.foreign
      /\ IsPermutation(f.preDb)
      /\ f.from = f.preDb[f.id].order
      /\ f.from # f.to
      /\ f.to \in 0..(Cardinality(DOMAIN f.preDb) - 1) )
    => /\ DOMAIN jobsDb = DOMAIN f.preDb
       /\ IsPermutation(jobsDb)
       /\ jobsDb[f.id].order = f.to
       /\ \A a, b \in DOMAIN jobsDb \ {f.id} :
            (f.preDb[a].order < f.preDb[b].order) <=> (jobsDb[a].order < jobsDb[b].order)

\* [A:0, B:1, C:2, D:3] with reorder(B, 1, 3) has become A:0, C:1, D:2, B:3.
C1_Witness ==
  \E f \in InFlight :
    /\ ReorderDone(f)
    /\ f.id = 2 /\ f.from = 1 /\ f.to = 3
    /\ Orders(f.preDb) = [i \in 1..NReorder |-> i - 1]
    /\ jobsDb[1].order = 0 /\ jobsDb[3].order = 1
    /\ jobsDb[4].order = 2 /\ jobsDb[2].order = 3

\* C2: when the failure injection fires during a reorder, the stored order of
\* every job, from the failure on and after the reload, is its value before
\* the drop (no other handler having written in between).
C2_InjectedKeepsOrders ==
  \A f \in InFlight :
    (f.kind = "reorder" /\ f.why = "injected" /\ ~f.foreign)
    => Orders(jobsDb) = Orders(f.preDb)

\* A reorder of two distinct positions failed by injection and its reload has
\* been applied.
C2_Witness ==
  \E f \in InFlight :
    /\ f.kind = "reorder" /\ f.why = "injected" /\ ~f.foreign
    /\ f.from # f.to
    /\ f.pc = "loadTags"

\* C5: a drop at the index the drag started from, reorder(id, k, k), changes
\* neither the displayed sequence nor any stored order value.
C5_InPlaceDropIsNoOp ==
  \A f \in InFlight :
    (f.kind = "reorder" /\ f.from = f.to /\ (f.pc = "delay" \/ ReorderDone(f)))
    => /\ Ids(jobs) = Ids(f.preJobs)
       /\ Orders(jobsDb) = Orders(f.preDb)

\* C6: when the remote reorder call fails, then once the reload is applied the
\* displayed sequence is the one displayed before the drag.
C6_FailedReorderRestoresDisplay ==
  \A f \in InFlight :
    (ReorderFailed(f) /\ f.pc = "loadTags") => Ids(jobs) = Ids(f.preJobs)

\* C7: at whatever point reorderJob throws, no stored job record differs from
\* its value before the call.
C7_FailedReorderWritesNothing ==
  \A f \in InFlight : ReorderFailed(f) => jobsDb = f.preDb

\* C9: once a successful reorder has completed, overlapped by another or not,
\* the stored order values are a contiguous permutation of [0..N-1].
C9_ReorderLeavesPermutation ==
  \A f \in InFlight : ReorderDone(f) => IsPermutation(jobsDb)

\* C8: no two stored jobs have the same slug.
C8_SlugsUnique ==
  \A a, b \in DOMAIN jobsDb : a # b => jobsDb[a].slug # jobsDb[b].slug

\* C3: whenever no remote call is outstanding, the displayed jobs are the
\* stored jobs of the current filter and page in ascending order, and each
\* displayed candidate's stage is its stored stage.
C3_DisplayEqualsStore ==
  (flows = << >> /\ moves = << >>)
  => /\ Ids(jobs) = Ids(GetJobs(jobsDb, CurParams).data)
     /\ \A n \in 1..Len(candidates) :
          candidates[n].stage = candidatesDb[candidates[n].id].stage

MovesInFlight == {moves[i] : i \in 1..Len(moves)}

\* Handler m is a stage move whose updateCandidate has returned, no other
\* handler having written the candidates or the timeline meanwhile.
MoveDone(m) == m.kind = "move" /\ m.pc = "returned" /\ ~m.foreign

\* C4: a successful updateCandidate that sets a stage different from the
\* stored one appends exactly one timeline event, of that candidate and of the
\* new stage; one that sets the stored stage appends none.
C4_StageChangeLogsOneEvent ==
  \A m \in MovesInFlight :
    MoveDone(m)
    => IF m.stage # m.preCand[m.id].stage
       THEN /\ Len(timelinesDb) = Len(m.preTimeline) + 1
            /\ SubSeq(timelinesDb, 1, Len(m.preTimeline)) = m.preTimeline
            /\ timelinesDb[Len(timelinesDb)].candidateId = m.id
            /\ timelinesDb[Len(timelinesDb)].stage = m.stage
       ELSE timelinesDb = m.preTimeline

\* A move to another stage has returned and its event is in the timeline.
C4_Witness ==
  \E m \in MovesInFlight :
    /\ MoveDone(m)
    /\ m.stage # m.preCand[m.id].stage
    /\ Len(timelinesDb) = Len(m.preTimeline) + 1

\* The four object stores.
stores == <<jobsDb, candidatesDb, timelinesDb, assessmentsDb>>

\* A step in which a mutating remote call ends in the injected failure.
InjectedFailure ==
  \E i \in FlowIndexes :
    \/ ReorderInjected(i)
    \/ ArchiveInjected(i)
    \/ SubmitInjected(i)
    \/ MoveInjected(i)
    \/ SaveInjected(i)

\* C12: a mutating remote call (createJob, updateJob, reorderJob,
\* updateCandidate, saveAssessment) that fails by injection leaves the jobs,
\* the candidates, the assessments and the timeline events as they were.
C12_InjectedFailureKeepsStores ==
  [][InjectedFailure => UNCHANGED stores]_vars

\* An updateCandidate of a stage change has failed by injection, and the
\* candidates and the timeline are those of before the call.
C12_Witness ==
  \E m \in MovesInFlight :
    /\ m.kind = "move" /\ m.why = "injected"
    /\ m.stage # m.preCand[m.id].stage
    /\ candidatesDb = m.preCand /\ timelinesDb = m.preTimeline

\* A submit of the job form with a blank title.
BlankTitleSubmit ==
  \E title \in FormTitles :
    /\ IsBlank(title)
    /\ \/ \E slugField \in FormSlugs : SubmitCreate(title, slugField)
       \/ \E idx \in 1..Len(jobs) :
            \E slugField \in FormSlugs \cup {jobs[idx].slug} :
              SubmitEdit(idx, title, slugField)

\* A step in which the job form is refused with a validation error.
ValidationError == BlankTitleSubmit \/ \E i \in FlowIndexes : SubmitSlugTaken(i)

\* C13: a job-form submission refused with a validation error (blank title,
\* slug used by another job) is refused in the step of the submit itself: no
\* handler was suspended on a store call before the error, and the step
\* issues no call and writes no store.
C13_ValidationBeforeAnyStoreCall ==
  [][ValidationError => (ops' = ops - 1 /\ flows' = flows /\ UNCHANGED stores)]_vars

\* Every conditional rule of assessment a references another question of the
\* rule's own section.
RulesValid(a) ==
  \A n \in 1..Len(a.sections) :
    \A q \in 1..Len(a.sections[n].questions) :
      LET question == a.sections[n].questions[q]
      IN question.conditional # NoRule
         => /\ question.conditional.questionId # question.id
            /\ \E r \in 1..Len(a.sections[n].questions) :
                 a.sections[n].questions[r].id = question.conditional.questionId

\* C14: after any sequence of builder operations, every question's conditional
\* rule references an existing question of the same section, other than the
\* question itself.
C14_ConditionalRulesValid == RulesValid(assessment)

\* The pages 1..n that getJobs returns for the store and the filters, one
\* after the other.
RECURSIVE PagesUpTo(_, _, _)
PagesUpTo(db, params, n) ==
  IF n = 0 THEN << >>
  ELSE PagesUpTo(db, params, n - 1) \o GetJobs(db, [params EXCEPT !.page = n]).data

\* C15: getJobs returns the page of the stored jobs that match all supplied
\* filters: `total` counts the matching jobs, totalPages is
\* ceil(total / pageSize), the pages 1..totalPages one after the other hold
\* every matching job exactly once in ascending `order`, and page p holds the
\* positions [(p-1)*pageSize, p*pageSize) of that list.
C15_GetJobsPages ==
  \A f \in InFlight :
    (f.kind = "load" /\ f.pc = "loadApply")
    => LET r == f.res
           ps == r.pageSize
           matching == {id \in DOMAIN jobsDb : MatchesJob(jobsDb[id], f.params)}
           all == PagesUpTo(jobsDb, f.params, r.totalPages)
           first == (r.page - 1) * ps
           last == IF r.page * ps < Len(all) THEN r.page * ps ELSE Len(all)
       IN /\ r = GetJobs(jobsDb, f.params)
          /\ r.page = (IF f.params.page = 0 THEN 1 ELSE f.params.page)
          /\ ps = PageSize
          /\ r.total = Cardinality(matching)
          /\ r.totalPages * ps >= r.total
          /\ r.totalPages * ps < r.total + ps
          /\ Len(all) = r.total
          /\ {all[k].id : k \in 1..Len(all)} = matching
          /\ \A k \in 1..Len(all) : all[k] = jobsDb[all[k].id]
          /\ \A k, l \in 1..Len(all) : k < l => all[k].order <= all[l].order
          /\ r.data = [k \in 1..(IF last > first THEN last - first ELSE 0) |-> all[first + k]]

\* The active jobs A and B with orders 1 and 0, filter "active": the page
\* returned is [B, A], of 2 matching jobs on 1 page.
C15_Witness ==
  \E f \in InFlight :
    /\ f.kind = "load" /\ f.pc = "loadApply"
    /\ f.params.status = "active" /\ f.params.search = << >> /\ f.params.tag = ""
    /\ jobsDb[1].order = 1 /\ jobsDb[2].order = 0
    /\ Ids(f.res.data) = <<2, 1>>
    /\ f.res.total = 2 /\ f.res.totalPages = 1

\* C16: in every reachable state, every stored candidate's jobId is the id of
\* a stored job.
C16_CandidateJobExists ==
  \A c \in DOMAIN candidatesDb :
    /\ candidatesDb[c].jobId \in DOMAIN jobsDb
    /\ jobsDb[candidatesDb[c].jobId].id = candidatesDb[c].jobId

\* A candidate's record has been rewritten by a stage change and still names
\* a stored job.
C16_Witness ==
  \E m \in MovesInFlight :
    /\ m.kind = "move" /\ m.pc = "returned"
    /\ candidatesDb[m.id] # m.preCand[m.id]
    /\ candidatesDb[m.id].jobId \in DOMAIN jobsDb

\* C11: the timeline event of a successful stage change carries the note that
\* was supplied (a non-empty text) and otherwise "Moved to <stage>" with the
\* new stage.
C11_EventNote ==
  \A m \in MovesInFlight :
    (MoveDone(m) /\ m.stage # m.preCand[m.id].stage)
    => /\ Len(timelinesDb) = Len(m.preTimeline) + 1
       /\ timelinesDb[Len(timelinesDb)].note =
            IF m.note \in {NoNote, << >>} THEN <<"Moved to ", m.stage>> ELSE m.note

\* A candidate in "applied" was moved to "screen" with no note: the event's
\* note is "Moved to screen".
C11_Witness ==
  \E m \in MovesInFlight :
    /\ MoveDone(m)
    /\ m.preCand[m.id].stage = "applied" /\ m.stage = "screen" /\ m.note = NoNote
    /\ timelinesDb[Len(timelinesDb)].note = <<"Moved to ", "screen">>
    /\ timelinesDb[Len(timelinesDb)].candidateId = m.id

SavesInFlight == {saves[i] : i \in 1..Len(saves)}

\* C10: after a successful saveAssessment(J, a), getAssessment(J) returns a
\* record whose section/question tree equals a's.
C10_SaveLoadRoundTrip ==
  \A f \in SavesInFlight :
    (f.kind = "save" /\ f.pc = "saved")
    => LET loaded == GetAssessment(assessmentsDb, builderJob)
       IN loaded # Undefined /\ loaded.sections = f.a.sections

\* A tree of one section with one question has been saved for a job that had
\* no assessment, and reading that job's assessment gives the tree back.
C10_Witness ==
  \E f \in SavesInFlight :
    /\ f.kind = "save" /\ f.pc = "saved"
    /\ builderJob \notin DOMAIN SeedAssessments
    /\ Len(f.a.sections) = 1
    /\ Len(f.a.sections[1].questions) = 1
    /\ GetAssessment(assessmentsDb, builderJob).sections = f.a.sections

\* A read call returns its result to the handler that awaits it.
ReadReturns ==
  \A i \in FlowIndexes :
    /\ LoadRead(i) =>
         /\ Len(flows') = Len(flows)
         /\ flows'[i].pc = "loadApply"
         /\ flows'[i].res = GetJobs(jobsDb, flows[i].params)
    /\ KanbanLoadRead(i) =>
         /\ Len(moves') = Len(moves)
         /\ moves'[i].pc = "loadApply"
         /\ moves'[i].res = GetCandidates(candidatesDb, KanbanJob)
    /\ BuilderLoadRead(i) =>
         /\ Len(saves') = Len(saves)
         /\ saves'[i].pc = "apply"
         /\ saves'[i].res = GetAssessment(assessmentsDb, builderJob)
    /\ TimelineRead(i) =>
         /\ Len(profiles') = Len(profiles)
         /\ profiles'[i].pc = "timelineApply"
         /\ profiles'[i].res = GetTimeline(timelinesDb, profileId)

\* Every pending mutating call can end in the injected error.
MutatingCanFail ==
  /\ \A i \in DOMAIN flows :
       flows[i].pc = "delay" =>
         CASE flows[i].kind = "reorder" -> ENABLED ReorderInjected(i)
           [] flows[i].kind = "archive" -> ENABLED ArchiveInjected(i)
           [] OTHER -> ENABLED SubmitInjected(i)
  /\ \A i \in DOMAIN moves :
       (moves[i].kind = "move" /\ moves[i].pc = "delay") => ENABLED MoveInjected(i)
  /\ \A i \in DOMAIN saves :
       (saves[i].kind = "save" /\ saves[i].pc = "delay") => ENABLED SaveInjected(i)

\* The injected error reaches the catch of the handler that made the call:
\* the drop handlers reload, the form shows the message, the archive and save
\* handlers end without their success path.
RaisedToCaller ==
  \A i \in FlowIndexes :
    /\ ReorderInjected(i) =>
         /\ flows'[i].kind = "reorder" /\ flows'[i].pc = "loadDelay"
         /\ loading'
    /\ ArchiveInjected(i) => Len(flows') = Len(flows) - 1 /\ loading' = loading
    /\ SubmitInjected(i) =>
         /\ Len(flows') = Len(flows) - 1
         /\ formError' \in {"Failed to create job", "Failed to update job"}
    /\ MoveInjected(i) =>
         /\ moves'[i].kind = "move" /\ moves'[i].pc = "loadDelay"
         /\ kanbanLoading'
    /\ SaveInjected(i) => Len(saves') = Len(saves) - 1 /\ ~saving'

\* C17: the injected failure applies to the mutating calls only: getJobs,
\* getCandidates, getTimeline and getAssessment always return their result,
\* while a pending createJob, updateJob, reorderJob, updateCandidate or
\* saveAssessment can end in the injected error, and when it does the error
\* reaches the handler that made the call.
C17_OnlyMutatingCallsFail ==
  /\ []MutatingCanFail
  /\ [][ReadReturns /\ RaisedToCaller]_vars

\* createJob has ended in the injected error, which the form shows, after the
\* board's getJobs had returned the seeded jobs.
C17_Witness ==
  /\ formError = "Failed to create job"
  /\ jobs # << >>
  /\ Cardinality(DOMAIN jobsDb) = NSeed

\* The mutating remote calls made by the handlers of a list.
RECURSIVE CallsOf(_)
CallsOf(hs) == IF hs = << >> THEN 0 ELSE Head(hs).calls + CallsOf(Tail(hs))

\* The mutating remote calls made by the handlers in flight.
CallsMade == CallsOf(flows) + CallsOf(moves) + CallsOf(saves)

\* Where a handler is while its reload runs.
ReloadPcs == {"loadDelay", "loadApply", "loadTags"}

\* No handler has made a second mutating call, and a handler whose call has
\* failed is in its reload.
AtMostOneCall ==
  /\ \A f \in InFlight : f.calls <= 1 /\ (f.why # "" => f.pc \in ReloadPcs)
  /\ \A m \in MovesInFlight : m.calls <= 1 /\ (m.why # "" => m.pc \in ReloadPcs)
  /\ \A v \in SavesInFlight : v.calls <= 1

\* C18: no mutating call is retried automatically: each user intent (drop,
\* archive click, form submit, assessment save) makes at most one mutating
\* remote call, and after that call has failed the handler makes no other
\* one (it only reloads); a mutating call is made only in the step of a user
\* intent or, for the form, in the step that follows its slug check.
C18_NoAutomaticRetry ==
  /\ []AtMostOneCall
  /\ [][CallsMade' > CallsMade =>
          (ops' = ops - 1 \/ \E i \in FlowIndexes : SubmitCall(i))]_vars

\* The updateCandidate call of a drop has failed by injection and the
\* handler, with that one call made, has reloaded the candidates.
C18_Witness ==
  \E m \in MovesInFlight :
    /\ m.kind = "move" /\ m.why = "injected"
    /\ m.calls = 1 /\ m.pc = "loadApply"

\* Where a handler is while a remote call it made has not returned: in the
\* call's delay or in one of the call's store requests.
CallPcs == {"delay", "put", "written", "loadDelay", "timelineDelay"}

\* No remote call is pending.
NoCallPending ==
  /\ \A f \in InFlight : f.pc \notin CallPcs
  /\ \A m \in MovesInFlight : m.pc \notin CallPcs
  /\ \A v \in SavesInFlight : v.pc \notin CallPcs
  /\ \A n \in 1..Len(profiles) : profiles[n].pc \notin CallPcs

\* C19: every simulated remote call that is made resolves, with success or
\* with failure, whatever other calls are in flight: no call stays pending
\* forever, so that again and again no call is pending.
C19_CallsResolve == []<>NoCallPending

\* Two updateCandidate calls were in flight; one has returned while the other
\* is still in its delay.
C19_Witness ==
  \E a, b \in 1..Len(moves) :
    /\ moves[a].kind = "move" /\ moves[a].pc = "returned"
    /\ moves[b].kind = "move" /\ moves[b].pc = "delay"

\* C20: after a successful drag-reorder on the jobs board, on any page and
\* under any filter, the optimistic displayed sequence that is left in place
\* is what a reload would show: the matching stored jobs of that page in
\* ascending stored order.
C20_OptimisticOrderIsStoredOrder ==
  \A f \in InFlight :
    (ReorderDone(f) /\ ~f.foreign /\ f.from # f.to)
    => Ids(jobs) = Ids(GetJobs(jobsDb, f.params).data)

\* C21: on a drop with a destination the displayed sequence becomes, in the
\* step of the drop, the one with the item of index `from` taken out and put
\* back at index `to`: while the remote reorder call is pending and has
\* written nothing, the item at `to` is the one that was at `from` and the
\* other items are in the order they were in.
C21_OptimisticDisplayAtDrop ==
  \A f \in InFlight :
    (f.kind = "reorder" /\ f.pc = "delay")
    => /\ jobsDb = f.preDb
       /\ Len(jobs) = Len(f.preJobs)
       /\ jobs[f.to + 1] = f.preJobs[f.from + 1]
       /\ RemoveAt(jobs, f.to + 1) = RemoveAt(f.preJobs, f.from + 1)

\* A job has been dropped at another index and the display has changed
\* while the reorder call is in its delay.
C21_Witness ==
  \E f \in InFlight :
    /\ f.kind = "reorder" /\ f.pc = "delay"
    /\ f.from # f.to
    /\ jobs # f.preJobs

\* The stage in which the candidate `id` is displayed in `list` (the empty
\* set when it is not displayed).
DisplayedStages(list, id) == {list[n].stage : n \in {k \in 1..Len(list) : list[k].id = id}}

CleanReorderInProgress(f) ==
  /\ f.kind = "reorder" /\ f.pc = "put" /\ f.k <= Len(f.local)
  /\ ~f.foreign
  /\ IsPermutation(f.preDb)
  /\ f.preDb[f.id].order = f.from
  /\ f.to \in 0..(Cardinality(DOMAIN f.preDb) - 1)
  /\ f.from # f.to

\* C23: the order shift of a reorder is one unit for readers: every read of
\* the jobs made while a reorder is in progress (getJobs, or the getAll of
\* another reorder) finds order values that form a permutation of [0..N-1].
C23_ReadersSeeWholeShift ==
  [][\A i \in FlowIndexes :
       ((LoadRead(i) \/ ReorderRead(i))
          /\ \E n \in DOMAIN flows : n # i /\ CleanReorderInProgress(flows[n]))
       => IsPermutation(jobsDb)]_vars

\* C24: after completed, non-overlapping board operations the stored order
\* values stay a permutation of [0..N-1]; in particular an edit through the
\* form writes back no older order value: once its put is made, the job's
\* stored order is the one updateJob read.
C24_EditKeepsStoredOrder ==
  \A f \in InFlight :
    (f.kind = "edit" /\ f.pc = "written")
    => /\ jobsDb[f.id].order = f.rec.order
       /\ (IsPermutation([jobsDb EXCEPT ![f.id] = f.rec]) => IsPermutation(jobsDb))

\* C25: when the same candidate is moved twice, the second drop before the
\* first call has resolved, and both updateCandidate calls succeed, then once
\* both have written the stored stage is the one requested last, which is the
\* displayed one.
C25_LastMoveWins ==
  \A a, b \in 1..Len(moves) :
    (/\ a < b
     /\ moves[a].kind = "move" /\ moves[b].kind = "move"
     /\ moves[a].id = moves[b].id
     /\ moves[a].pc \in {"written", "returned"}
     /\ moves[b].pc \in {"written", "returned"})
    => /\ candidatesDb[moves[b].id].stage = moves[b].stage
       /\ DisplayedStages(candidates, moves[b].id) = {moves[b].stage}

\* C26: when loads of the jobs board overlap, the response that is applied
\* last (every other handler in flight is a load whose response has been
\* applied already), and that is current for its own request, leaves the
\* jobs and totalPages of the search/filter/page requested last on display.
C26_LastRequestedLoadWins ==
  [][\A i \in FlowIndexes :
       (/\ LoadApply(i)
        /\ Len(flows) > 1
        /\ \A n \in DOMAIN flows :
             n # i => flows[n].kind = "load" /\ flows[n].pc = "loadTags"
        /\ flows[i].res = GetJobs(jobsDb, flows[i].params))
       => /\ jobs' = GetJobs(jobsDb, CurParams).data
          /\ totalPages' = GetJobs(jobsDb, CurParams).totalPages]_vars

\* C27: when an archive toggle overlaps a reorder and both remote calls have
\* succeeded (updateJob has written, reorderJob has made its last put), the
\* toggled job's stored order is the one the reorder assigned and its stored
\* status is the toggled one.
C27_ToggleAndReorderBothKept ==
  \A a, r \in DOMAIN flows :
    (/\ flows[a].kind = "archive" /\ flows[a].pc = "written"
     /\ flows[r].kind = "reorder" /\ flows[r].pc = "put"
     /\ flows[r].k > Len(flows[r].local))
    => /\ jobsDb[flows[a].id].status = flows[a].status
       /\ \A n \in 1..Len(flows[r].local) :
            flows[r].local[n].id = flows[a].id
            => jobsDb[flows[a].id].order = flows[r].local[n].order

\* C28: in every reachable state of the jobs board the current page number is
\* at least 1 and at most max(1, totalPages).
C28_PageWithinRange ==
  view = "jobs" => page >= 1 /\ page <= Max(1, totalPages)

\* ------------------------------------------------------------------ saveAssessment
\* The assessment objects saveAssessment is called with: with or without a
\* jobId property of their own (0: none), empty or with the seeded sections.
SaveInputs ==
  {[jobId |-> j, sections |-> ss] :
     j \in {0} \cup SeedIds, ss \in {<< >>, SeedAssessments[1].sections}}

\* saveAssessment(jobId, assessment) is about to be called for some job with
\* some assessment object.
InitSave ==
  /\ jobsDb = SeedJobs
  /\ jobs = << >>
  /\ search = << >>
  /\ statusFilter = ""
  /\ tagFilter = ""
  /\ page = 1
  /\ totalPages = 1
  /\ loading = FALSE
  /\ flows = << >>
  /\ formError = ""
  /\ now = NSeed + 1
  /\ ops = MaxOps
  /\ ioFaults = 0
  /\ limit = MaxInFlight
  /\ view = "assessment"
  /\ KanbanIdle
  /\ ProfileIdle
  /\ assessmentsDb = SeedAssessments
  /\ assessment \in SaveInputs
  /\ builderJob \in SeedIds
  /\ builderLoading = FALSE
  /\ saving = FALSE
  /\ saves = << >>

NextSave ==
  \/ Save
  \/ \E i \in FlowIndexes : SaveInjected(i)
  \/ \E i \in FlowIndexes : SavePut(i)
  \/ \E i \in FlowIndexes : SaveEnd(i)

SpecSave == InitSave /\ [][NextSave]_vars

\* C29: a successful saveAssessment(J, a) writes the assessment record keyed
\* by J, with a's sections, and changes no other job's assessment record,
\* whatever jobId property a carries.
C29_SaveWritesOnlyItsJob ==
  [][\A i \in FlowIndexes :
       SavePut(i)
       => /\ builderJob \in DOMAIN assessmentsDb'
          /\ assessmentsDb'[builderJob].jobId = builderJob
          /\ assessmentsDb'[builderJob].sections = saves[i].a.sections
          /\ \A j \in (DOMAIN assessmentsDb \cup DOMAIN assessmentsDb') \ {builderJob} :
               /\ j \in DOMAIN assessmentsDb
               /\ j \in DOMAIN assessmentsDb'
               /\ assessmentsDb'[j] = assessmentsDb[j]]_vars

\* ------------------------------------------------------------------ the profile alone
SpecProfile == InitProfile /\ [][NextProfile]_vars

ProfilesInFlight == {profiles[i] : i \in 1..Len(profiles)}

\* C30: adding a non-blank note appends exactly one timeline event of type
\* 'note' for the profile's candidate and changes neither a candidate record
\* nor an existing timeline event; a blank or whitespace-only note appends
\* nothing; the rest of the handler writes nothing.
C30_NoteAppendsOneEvent ==
  [][/\ \A note \in NoteTexts :
          AddNote(note)
          => /\ candidatesDb' = candidatesDb
             /\ IF IsBlank(note)
                THEN timelinesDb' = timelinesDb
                ELSE /\ Len(timelinesDb') = Len(timelinesDb) + 1
                     /\ SubSeq(timelinesDb', 1, Len(timelinesDb)) = timelinesDb
                     /\ timelinesDb'[Len(timelinesDb')].type = "note"
                     /\ timelinesDb'[Len(timelinesDb')].candidateId = profileId
                     /\ timelinesDb'[Len(timelinesDb')].note = note
     /\ \A i \in FlowIndexes :
          (NoteStored(i) \/ TimelineRead(i) \/ NoteApply(i))
          => candidatesDb' = candidatesDb /\ timelinesDb' = timelinesDb]_vars

\* A note has been added to a loaded profile: its event is the last of the
\* store, after the seeded events, and the handler awaits its put.
C30_Witness ==
  \E f \in ProfilesInFlight :
    /\ f.kind = "note" /\ f.pc = "put"
    /\ Len(timelinesDb) = NCand + 1
    /\ timelinesDb[NCand + 1] = NoteEvent(profileId, candidatesDb[profileId].stage, <<"n">>)
    /\ \A c \in 1..NCand : timelinesDb[c] = SeedEvent(c)

====
